---- MODULE Spec2Model ----
(***************************************************************************)
(* Area streaming of the SLG map client: MapUtil (map configuration,       *)
(* coordinate and area partition math), MapProxy (centre tracking, area    *)
(* diff, fetch queue, descriptor table, per-area query throttle) and the   *)
(* layer of MapBaseLayerLogic and MapCityLogic (areas, items, node pool).  *)
(*                                                                         *)
(* Numbers are JavaScript numbers in the source.  Every tile size and      *)
(* visible size used below is even, so all pixel quantities are integers   *)
(* and the floating point expressions of the source are exact; they are    *)
(* written here with integer arithmetic over a common denominator.         *)
(***************************************************************************)
EXTENDS Integers, Sequences, FiniteSets, TLC

VARIABLES
    tileSize,        \* MapUtil._tileSize
    mapSize,         \* MapUtil._mapSize
    mapOffsetPoint,  \* MapUtil._mapOffsetPoint
    zeroPixelPoint,  \* MapUtil._zeroPixelPoint
    areaCellSize,    \* MapUtil._areaCellSize
    areaSize,        \* MapUtil._areaSize
    visibleSize,     \* view.getVisibleSize()
    curCenterPoint,  \* MapProxy._curCenterPoint: << >> is null, <<p>> is the Vec2 p
    curCenterAreaId, \* MapProxy._curCenterAreaId
    mapAreaDatas,    \* MapProxy._mapAreaDatas
    qryAreaIds,      \* MapProxy.qryAreaIds
    itemMap,         \* MapBaseLayerLogic._itemMap (its keys: the resident areas)
    itemPool,        \* MapBaseLayerLogic._itemPool: the pooled nodes, last put last
    nodeCount,       \* number of nodes instantiated from the prefab so far
    nowTime,         \* Date.now()
    call,            \* record of the last setCurCenterPoint call
    qry,             \* record of the last checkAndUpdateQryTime call
    upd,             \* record of the last content update of the layer
    hist,            \* history: the permitted queries and the resets of the table
    util,            \* record of the last use of a function of MapUtil
    tiledMap,        \* MapLogic._tiledMap: << >> is null, else the size of its node
    cameraPosition,  \* MapLogic._mapCamera.node.position (x and y)
    isTouch,         \* MapLogic._isTouch
    isMove,          \* MapLogic._isMove
    maxMapX,         \* MapLogic._maxMapX
    maxMapY,         \* MapLogic._maxMapY
    touches,         \* the number of touches the engine has begun and not ended
    touch,           \* record of the last touch handler or scrollToMapPoint call
    mapResConfigs,   \* MapProxy._mapResConfigs: the configuration of each key
    isQryMyProperty, \* MapCommand._isQryMyProperty
    net,             \* the queries sent and not answered yet, in the order sent
    cmd,             \* record of the last operation of MapCommand
    mapPosTags,      \* MapProxy._mapPosTags
    tag,             \* record of the last operation on the position tags
    steps            \* number of operations performed so far

vars == <<tileSize, mapSize, mapOffsetPoint, zeroPixelPoint, areaCellSize,
          areaSize, visibleSize, curCenterPoint, curCenterAreaId,
          mapAreaDatas, qryAreaIds, itemMap, itemPool, nodeCount, nowTime,
          call, qry, upd, hist, util, tiledMap, cameraPosition, isTouch, isMove,
          maxMapX, maxMapY, touches, touch, mapResConfigs, isQryMyProperty, net,
          cmd, mapPosTags, tag, steps>>

cfgVars == <<tileSize, mapSize, mapOffsetPoint, zeroPixelPoint, areaCellSize,
             areaSize, visibleSize>>

proxyVars == <<curCenterPoint, curCenterAreaId, mapAreaDatas, qryAreaIds>>

layerVars == <<itemMap, itemPool, nodeCount>>

logicVars == <<tiledMap, cameraPosition, isTouch, isMove, maxMapX, maxMapY, touches, touch>>

cmdVars == <<mapResConfigs, isQryMyProperty, net, cmd>>

tagVars == <<mapPosTags, tag>>

restVars == <<logicVars, cmdVars, tagVars>>

----------------------------------------------------------------------------
(* Bounds of the model *)

\* number of operations in one behaviour
MaxSteps == 3

\* number of operations of the map view in one behaviour
MaxLogicSteps == 6

\* number of touches at a time
MaxTouches == 2

\* enterMap() is not called while this many queries wait for a response
MaxPending == 2

\* the calls of MapCommand.clearData in one run
MaxClears == 2

\* the tag operations in one run
MaxTagSteps == 4

\* the clock when the map is entered (Date.now() is far beyond MAX_TIME)
StartTime == 20000

\* the clock is not advanced beyond this
MaxClock == 42000

----------------------------------------------------------------------------
(* Values *)

v2(x, y) == [x |-> x, y |-> y]

size(w, h) == [width |-> w, height |-> h]

Min(a, b) == IF a < b THEN a ELSE b

Max(a, b) == IF a > b THEN a ELSE b

\* variant: the quotient is rounded down
CeilDiv_Floor(a, b) == a \div b

\* Math.ceil(a / b) for b > 0
CeilDiv(a, b) == -((-a) \div b)

\* Math.floor(a / b) for b > 0
FloorDiv(a, b) == a \div b

\* the JavaScript remainder a % b for b > 0: it has the sign of a
JsMod(a, b) == IF a >= 0 THEN a % b ELSE -((-a) % b)

\* Array.prototype.indexOf: 0-based index of the first occurrence, else -1
RECURSIVE IndexFrom(_, _, _)
IndexFrom(s, e, i) ==
    IF i > Len(s) THEN -1
    ELSE IF s[i] = e THEN i - 1
    ELSE IndexFrom(s, e, i + 1)

indexOf(s, e) == IndexFrom(s, e, 1)

Range(s) == {s[i] : i \in 1..Len(s)}

----------------------------------------------------------------------------
(* MapUtil *)

\* the TiledMap configurations the map is initialized from: tile size, map
\* size in cells, pixel size of the map node (an isometric map of W x H
\* cells is (W+H)*tw/2 by (W+H)*th/2 pixels), and the visible size
MapConfigs ==
    { [tile |-> size(256, 128), map |-> size(20, 20),
       uit |-> size(5120, 2560), view |-> size(1280, 720)],
      [tile |-> size(256, 128), map |-> size(40, 40),
       uit |-> size(10240, 5120), view |-> size(1280, 720)],
      [tile |-> size(256, 128), map |-> size(20, 20),
       uit |-> size(5120, 2560), view |-> size(720, 1280)] }

\* the visible sizes of the devices
ViewInputs == { size(1280, h) : h \in {360, 480, 640, 720, 960, 1080, 1280} }

\* the TiledMaps initMapConfig is called with: isometric tiles twice as wide
\* as high, square maps, the node of the pixel size of the map
TiledMapInputs ==
    { [ tile |-> size(2 * th, th), map |-> size(n, n),
        uit |-> size(2 * n * th, n * th) ] :
        th \in {64, 128}, n \in {4, 6, 7, 8, 10, 12, 20, 40} }

\* initMapConfig: the area side length
ShowH(vsize, tile, map) ==
    Min(CeilDiv(vsize.height, tile.height * 2) * 2 + 2, map.height)

\* initMapConfig, the node anchored at (0.5, 0.5)
InitMapConfig(c) ==
    /\ tileSize = c.tile
    /\ mapSize = c.map
    /\ mapOffsetPoint = v2(c.uit.width \div 2, c.uit.height \div 2)
    /\ zeroPixelPoint = v2((c.map.width * c.tile.width) \div 2,
                           c.map.height * c.tile.height - c.tile.height \div 2)
    /\ visibleSize = c.view
    /\ areaCellSize = size(ShowH(c.view, c.tile, c.map), ShowH(c.view, c.tile, c.map))
    /\ areaSize = size(CeilDiv(c.map.width, ShowH(c.view, c.tile, c.map)),
                       CeilDiv(c.map.height, ShowH(c.view, c.tile, c.map)))

areaCount == areaSize.width * areaSize.height

getIdByCellPoint(x, y) == x + y * mapSize.width

\* variant: the row is rounded up
getCellPointById_Ceil(id) ==
    v2(JsMod(id, mapSize.width), CeilDiv(id, mapSize.width))

getCellPointById(id) ==
    v2(JsMod(id, mapSize.width), FloorDiv(id, mapSize.width))

get9GridCellIds(id) ==
    << id + mapSize.width - 1, id + mapSize.width, id + mapSize.width + 1,
       id - 1, id, id + 1,
       id - mapSize.width - 1, id - mapSize.width, id - mapSize.width + 1 >>

getSideIdsForRoleCity(id) ==
    << id + mapSize.width * 2 - 2, id + mapSize.width * 2 - 1, id + mapSize.width * 2,
       id + mapSize.width * 2 + 1, id + mapSize.width * 2 + 2,
       id + mapSize.width - 2, id + mapSize.width + 2,
       id - 2, id + 2,
       id - mapSize.width - 2, id - mapSize.width + 2,
       id - mapSize.width * 2 - 2, id - mapSize.width * 2 - 1, id - mapSize.width - 1,
       id - mapSize.width * 2 + 1, id - mapSize.width * 2 + 2 >>

getIdByAreaPoint(x, y) == x + y * areaSize.width

getAreaPointById(id) ==
    v2(JsMod(id, areaSize.width), FloorDiv(id, areaSize.width))

get9GridAreaIds(id) ==
    << id + areaSize.width - 1, id + areaSize.width, id + areaSize.width + 1,
       id - 1, id, id + 1,
       id - areaSize.width - 1, id - areaSize.width, id - areaSize.width + 1 >>

isVaildAreaId(id) == id >= 0 /\ id < areaCount

\* variant: nothing is filtered
get9GridVaildAreaIds_All(id) == get9GridAreaIds(id)

get9GridVaildAreaIds(id) == SelectSeq(get9GridAreaIds(id), isVaildAreaId)

getAreaPointByCellPoint(x, y) ==
    v2(FloorDiv(x, areaCellSize.width), FloorDiv(y, areaCellSize.height))

getAreaIdByCellPoint(x, y) ==
    getIdByAreaPoint(getAreaPointByCellPoint(x, y).x, getAreaPointByCellPoint(x, y).y)

\* variant: the areas are counted from 1
getStartCellPointByAreaPoint_OneBased(x, y) ==
    v2((x + 1) * areaCellSize.width, (y + 1) * areaCellSize.height)

getStartCellPointByAreaPoint(x, y) ==
    v2(x * areaCellSize.width, y * areaCellSize.height)

isVaildCellPoint(point) ==
    /\ point.x >= 0 /\ point.x < mapSize.width
    /\ point.y >= 0 /\ point.y < mapSize.height

isVaildAreaPoint(point) ==
    /\ point.x >= 0 /\ point.x < areaSize.width
    /\ point.y >= 0 /\ point.y < areaSize.height

\* variant: the quotients are rounded up
worldPixelToMapCellPoint_Ceil(point) ==
    v2(CeilDiv(mapSize.height * tileSize.width * tileSize.height
                 + 2 * point.x * tileSize.height - 2 * point.y * tileSize.width,
               2 * tileSize.width * tileSize.height),
       CeilDiv(3 * mapSize.width * tileSize.width * tileSize.height
                 - 2 * point.x * tileSize.height - 2 * point.y * tileSize.width,
               2 * tileSize.width * tileSize.height))

\* floor(0.5*H + x/tw - y/th) and floor(1.5*W - x/tw - y/th), over the
\* common denominator 2*tw*th
worldPixelToMapCellPoint(point) ==
    v2(FloorDiv(mapSize.height * tileSize.width * tileSize.height
                  + 2 * point.x * tileSize.height - 2 * point.y * tileSize.width,
                2 * tileSize.width * tileSize.height),
       FloorDiv(3 * mapSize.width * tileSize.width * tileSize.height
                  - 2 * point.x * tileSize.height - 2 * point.y * tileSize.width,
                2 * tileSize.width * tileSize.height))

\* variant: the bottom corner of the tile instead of its centre
mapCellToWorldPixelPoint_Bottom(point) ==
    v2(zeroPixelPoint.x - ((point.y - point.x) * tileSize.width) \div 2,
       zeroPixelPoint.y - ((point.x + point.y + 1) * tileSize.height) \div 2)

mapCellToWorldPixelPoint(point) ==
    v2(zeroPixelPoint.x - ((point.y - point.x) * tileSize.width) \div 2,
       zeroPixelPoint.y - ((point.x + point.y) * tileSize.height) \div 2)

mapCellToPixelPoint(point) ==
    v2(mapCellToWorldPixelPoint(point).x - mapOffsetPoint.x,
       mapCellToWorldPixelPoint(point).y - mapOffsetPoint.y)

mapPixelToCellPoint(point) ==
    worldPixelToMapCellPoint(v2(point.x + mapOffsetPoint.x, point.y + mapOffsetPoint.y))

\* the area id of a pixel point, as the loop body of getVaildAreaIdsByPixelPoints
AreaIdOfPixelPoint(p) ==
    getIdByAreaPoint(
        getAreaPointByCellPoint(mapPixelToCellPoint(p).x, mapPixelToCellPoint(p).y).x,
        getAreaPointByCellPoint(mapPixelToCellPoint(p).x, mapPixelToCellPoint(p).y).y)

RECURSIVE VaildAreaIdsFrom(_, _, _)
VaildAreaIdsFrom(points, i, list) ==
    IF i > Len(points) THEN list
    ELSE IF isVaildAreaId(AreaIdOfPixelPoint(points[i]))
            /\ indexOf(list, AreaIdOfPixelPoint(points[i])) = -1
         THEN VaildAreaIdsFrom(points, i + 1, Append(list, AreaIdOfPixelPoint(points[i])))
         ELSE VaildAreaIdsFrom(points, i + 1, list)

getVaildAreaIdsByPixelPoints(points) == VaildAreaIdsFrom(points, 1, << >>)

----------------------------------------------------------------------------
(* MapAreaData *)

MAX_TIME == 10000

\* the descriptor getMapAreaData builds for an id
NewMapAreaData(id) ==
    [ id |-> id,
      x |-> getAreaPointById(id).x,
      y |-> getAreaPointById(id).y,
      startCellX |-> getStartCellPointByAreaPoint(getAreaPointById(id).x, getAreaPointById(id).y).x,
      startCellY |-> getStartCellPointByAreaPoint(getAreaPointById(id).x, getAreaPointById(id).y).y,
      endCellX |-> getStartCellPointByAreaPoint(getAreaPointById(id).x, getAreaPointById(id).y).x
                     + areaCellSize.width,
      endCellY |-> getStartCellPointByAreaPoint(getAreaPointById(id).x, getAreaPointById(id).y).y
                     + areaCellSize.width,
      len |-> areaCellSize.width,
      qryStartTime |-> 0 ]

\* variant: the interval must be exceeded
QryPermitted_Strict(data, now) == now - data.qryStartTime > MAX_TIME

\* checkAndUpdateQryTime: whether the query is permitted at time now
QryPermitted(data, now) == now - data.qryStartTime >= MAX_TIME

\* variant: the time of a permitted query is not stored
QryUpdated_NoStore(data, now) == data

\* checkAndUpdateQryTime: the descriptor after the call at time now
QryUpdated(data, now) ==
    IF QryPermitted(data, now) THEN [data EXCEPT !.qryStartTime = now] ELSE data

\* variant: only the x axis is compared
fuzzyEquals_XOnly(this, other, variance) ==
    this.x - variance <= other.x /\ other.x <= this.x + variance

fuzzyEquals(this, other, variance) ==
    /\ this.x - variance <= other.x /\ other.x <= this.x + variance
    /\ this.y - variance <= other.y /\ other.y <= this.y + variance

----------------------------------------------------------------------------
(* MapBaseLayerLogic and MapCityLogic: the areas, their items, the pool *)

\* an empty map
NoItems == << >>

\* the layer: _itemMap maps an area index to its items, each item the id and
\* the node, in insertion order; _itemPool; the number of nodes instantiated.
\* A node is named by its number of instantiation; what a node displays
\* (setItemData) is not part of the state.
Layer(items, pool, count) == [items |-> items, pool |-> pool, count |-> count]

\* Map.has on the items of an area
HasItem(list, id) == \E i \in 1..Len(list) : list[i].id = id

\* getItem: the node of id in the area, 0 for null
getItem(l, areaIndex, id) ==
    IF HasItem(l.items[areaIndex], id)
    THEN (CHOOSE e \in Range(l.items[areaIndex]) : e.id = id).node
    ELSE 0

\* createItem: the node, and the layer after the node is taken from the pool
\* or instantiated
createItem(l) ==
    IF Len(l.pool) > 0
    THEN [ node |-> l.pool[Len(l.pool)],
           layer |-> [l EXCEPT !.pool = SubSeq(l.pool, 1, Len(l.pool) - 1)] ]
    ELSE [ node |-> l.count + 1,
           layer |-> [l EXCEPT !.count = l.count + 1] ]

\* variant: content for an area that is not resident re-admits the area
addItem_ReAdmit(l, areaIndex, id) ==
    IF areaIndex \in DOMAIN l.items /\ HasItem(l.items[areaIndex], id) THEN l
    ELSE [ createItem(l).layer EXCEPT !.items =
             [a \in (DOMAIN l.items) \cup {areaIndex} |->
                 IF a = areaIndex
                 THEN Append(IF a \in DOMAIN l.items THEN l.items[a] ELSE << >>,
                             [id |-> id, node |-> createItem(l).node])
                 ELSE l.items[a]] ]

\* addItem(areaIndex, data), id the id of data: the layer after the call
addItem(l, areaIndex, id) ==
    IF areaIndex \in DOMAIN l.items
    THEN IF getItem(l, areaIndex, id) = 0
         THEN [ createItem(l).layer EXCEPT !.items[areaIndex] =
                  Append(l.items[areaIndex], [id |-> id, node |-> createItem(l).node]) ]
         ELSE l
    ELSE l

\* variant: the item stays in the map of the area
removeItem_KeepEntry(l, areaIndex, id) ==
    IF HasItem(l.items[areaIndex], id)
    THEN [ l EXCEPT !.pool = Append(l.pool, getItem(l, areaIndex, id)) ]
    ELSE l

\* removeItem(areaIndex, id) for an area of the layer: the node goes back to
\* the pool
removeItem(l, areaIndex, id) ==
    IF HasItem(l.items[areaIndex], id)
    THEN [ l EXCEPT !.pool = Append(l.pool, getItem(l, areaIndex, id)),
                    !.items[areaIndex] = SelectSeq(l.items[areaIndex], LAMBDA e : e.id # id) ]
    ELSE l

\* the nodes of the items of an area, in the order of the map
NodesOf(list) == [i \in 1..Len(list) |-> list[i].node]

addArea(l, areaIndex) ==
    IF areaIndex \in DOMAIN l.items THEN l
    ELSE [ l EXCEPT !.items =
             [a \in (DOMAIN l.items) \cup {areaIndex} |->
                 IF a = areaIndex THEN NoItems ELSE l.items[a]] ]

removeArea(l, areaIndex) ==
    IF areaIndex \in DOMAIN l.items
    THEN [ l EXCEPT !.pool = l.pool \o NodesOf(l.items[areaIndex]),
                    !.items = [a \in (DOMAIN l.items) \ {areaIndex} |-> l.items[a]] ]
    ELSE l

RECURSIVE RemoveAreasFrom(_, _, _)
RemoveAreasFrom(l, removeIndexs, i) ==
    IF i > Len(removeIndexs) THEN l
    ELSE RemoveAreasFrom(removeArea(l, removeIndexs[i]), removeIndexs, i + 1)

RECURSIVE AddAreasFrom(_, _, _)
AddAreasFrom(l, addIndexs, i) ==
    IF i > Len(addIndexs) THEN l
    ELSE AddAreasFrom(addArea(l, addIndexs[i]), addIndexs, i + 1)

\* variant: the areas are added before the areas are removed
udpateShowAreas_AddFirst(l, addIndexs, removeIndexs) ==
    RemoveAreasFrom(AddAreasFrom(l, addIndexs, 1), removeIndexs, 1)

udpateShowAreas(l, addIndexs, removeIndexs) ==
    AddAreasFrom(RemoveAreasFrom(l, removeIndexs, 1), addIndexs, 1)

\* the loops of onUpdateCitys
RECURSIVE AddItemsFrom(_, _, _, _)
AddItemsFrom(l, areaIndex, addIds, i) ==
    IF i > Len(addIds) THEN l
    ELSE AddItemsFrom(addItem(l, areaIndex, addIds[i]), areaIndex, addIds, i + 1)

RECURSIVE RemoveItemsFrom(_, _, _, _)
RemoveItemsFrom(l, areaIndex, removeIds, i) ==
    IF i > Len(removeIds) THEN l
    ELSE RemoveItemsFrom(removeItem(l, areaIndex, removeIds[i]), areaIndex, removeIds, i + 1)

\* MapCityLogic.onUpdateCitys; updateItem changes only what the nodes display
onUpdateCitys(l, areaIndex, addIds, removeIds, updateIds) ==
    IF areaIndex \in DOMAIN l.items
    THEN RemoveItemsFrom(AddItemsFrom(l, areaIndex, addIds, 1), areaIndex, removeIds, 1)
    ELSE l

\* MapCityLogic.onUpdateCity
onUpdateCity(l, city) ==
    IF getAreaIdByCellPoint(city.x, city.y) \in DOMAIN l.items
    THEN addItem(l, getAreaIdByCellPoint(city.x, city.y), city.cityId)
    ELSE l

----------------------------------------------------------------------------
(* MapProxy *)

\* variant: every reference builds the descriptor anew
getMapAreaData_Fresh(datas, id) ==
    [i \in (DOMAIN datas) \cup {id} |-> IF i = id THEN NewMapAreaData(id) ELSE datas[i]]

\* _mapAreaDatas after getMapAreaData(id): the descriptor is created on the
\* first reference
getMapAreaData(datas, id) ==
    IF id \in DOMAIN datas THEN datas
    ELSE [i \in (DOMAIN datas) \cup {id} |-> IF i = id THEN NewMapAreaData(id) ELSE datas[i]]

\* the test that selects the full refresh in setCurCenterPoint
IsFullRefresh(curId, datas, areaData) ==
    \/ curId = -1
    \/ fuzzyEquals(getMapAreaData(datas, curId)[curId], areaData, 3) = FALSE

\* variant: the whole new neighbourhood is added
PanAddIds_All(newIds, oldIds) == newIds

\* incremental update: the ids of newIds that are not in oldIds
PanAddIds(newIds, oldIds) ==
    SelectSeq(newIds, LAMBDA id : indexOf(oldIds, id) = -1)

\* variant: the whole previous neighbourhood is removed
PanRemoveIds_All(newIds, oldIds) == oldIds

\* incremental update: the ids of oldIds that are not in newIds
PanRemoveIds(newIds, oldIds) ==
    SelectSeq(oldIds, LAMBDA id : indexOf(newIds, id) = -1)

\* incremental update: firstAreaIds, << >> standing for null;
\* "if (addIds.indexOf(areaData.id))" takes every index but 0 as true
PanFirstAreaIds(addIds, id) ==
    IF indexOf(addIds, id) # 0 THEN <<id>> ELSE << >>

\* variant: the right corners before the left corners
FullFirstAreaIds_RightFirst(pixelPoint) ==
    getVaildAreaIdsByPixelPoints(
        << pixelPoint,
           v2(pixelPoint.x + visibleSize.width \div 2, pixelPoint.y + visibleSize.height \div 2),
           v2(pixelPoint.x + visibleSize.width \div 2, pixelPoint.y - visibleSize.height \div 2),
           v2(pixelPoint.x - visibleSize.width \div 2, pixelPoint.y + visibleSize.height \div 2),
           v2(pixelPoint.x - visibleSize.width \div 2, pixelPoint.y - visibleSize.height \div 2) >>)

\* full refresh: the centre pixel and the four corners of the screen
FullFirstAreaIds(pixelPoint) ==
    getVaildAreaIdsByPixelPoints(
        << pixelPoint,
           v2(pixelPoint.x - visibleSize.width \div 2, pixelPoint.y + visibleSize.height \div 2),
           v2(pixelPoint.x - visibleSize.width \div 2, pixelPoint.y - visibleSize.height \div 2),
           v2(pixelPoint.x + visibleSize.width \div 2, pixelPoint.y + visibleSize.height \div 2),
           v2(pixelPoint.x + visibleSize.width \div 2, pixelPoint.y - visibleSize.height \div 2) >>)

\* the ids of addIds that are not first ids; all of addIds when there are no
\* first ids
OtherAreaIds(firstAreaIds, addIds) ==
    IF Len(firstAreaIds) > 0
    THEN SelectSeq(addIds, LAMBDA id : indexOf(firstAreaIds, id) = -1)
    ELSE addIds

\* the ids appended to the query queue
QryIndexs(firstAreaIds, otherAreaIds) ==
    IF Len(firstAreaIds) > 0 THEN firstAreaIds \o otherAreaIds ELSE otherAreaIds

NoEvent == << >>

NoCall ==
    [ ret |-> FALSE, path |-> "none", point |-> v2(0, 0), pixelPoint |-> v2(0, 0),
      prevPoint |-> << >>, prevAreaId |-> -1, prevQry |-> << >>, prevDatas |-> NoItems,
      prevItems |-> {}, areaId |-> -1, newIds |-> << >>, oldIds |-> << >>,
      addIds |-> << >>, removeIds |-> << >>, firstAreaIds |-> << >>,
      qryIndexs |-> << >>, events |-> NoEvent,
      atEmit |-> [qryAreaIds |-> << >>, curCenterAreaId |-> -1] ]

\* lastEver, lastCur: the time of the previous permitted query of the same
\* id, ever and since the length of _mapAreaDatas was last set; -1 when
\* there is none
NoQry ==
    [ done |-> FALSE, id |-> 0, now |-> 0, before |-> 0, after |-> 0, ret |-> FALSE,
      lastEver |-> -1, lastCur |-> -1 ]

NoUpd ==
    [ op |-> "none", areaIndex |-> 0, id |-> 0, addIndexs |-> << >>, removeIndexs |-> << >>,
      prevItems |-> NoItems, prevPool |-> << >>, prevCount |-> 0 ]

\* ever, cur: the time of the last permitted query of each id, ever and
\* since the length of _mapAreaDatas was last set; clears: the number of
\* clearData and initData calls
NoHist == [ ever |-> NoItems, cur |-> NoItems, clears |-> 0 ]

\* the last use of MapUtil: the function, its argument (a point or an id),
\* and what it and the functions applied to its result returned
NoUtil ==
    [ op |-> "none", point |-> v2(0, 0), id |-> 0, image |-> v2(0, 0),
      back |-> v2(0, 0), ids |-> << >>, cellIds |-> << >>, vaildIds |-> << >>,
      data |-> << >> ]

\* the last touch handler or scrollToMapPoint call: the handler, its
\* argument, the events it emitted, the state before it, and whether a move
\* with a non-zero delta has been handled since the last onTouchBegan
NoTouch ==
    [ op |-> "none", arg |-> v2(0, 0), events |-> << >>,
      prevCamera |-> v2(0, 0), prevCenter |-> << >>, prevIsTouch |-> FALSE,
      movedSinceBegan |-> FALSE ]

\* the last operation of MapCommand: the operation, the queries it sent and
\* the events it emitted, in order, and whether a my-property response with
\* code 0 has been received since the last clearData
NoCmd ==
    [ op |-> "none", code |-> 0, sent |-> << >>, events |-> << >>, entered |-> FALSE,
      enterSent |-> << >>, okSinceClear |-> FALSE, waiting |-> FALSE, parity |-> 0 ]

\* the last operation on the position tags: the operation, its position and
\* the tags before it
NoTag == [ op |-> "none", x |-> 0, y |-> 0, name |-> "", posTag |-> << >>, prevTags |-> << >> ]

\* the array after "length = n": the elements from n on are removed; a
\* descriptor stored under a negative id is a property of the array object,
\* not an element, and stays
Truncated(datas, n) ==
    IF \A id \in DOMAIN datas : id >= n /\ id >= 0 THEN NoItems
    ELSE [id \in {i \in DOMAIN datas : i < n \/ i < 0} |-> datas[id]]

\* the map f with the key k set to v
Put(f, k, v) == [i \in (DOMAIN f) \cup {k} |-> IF i = k THEN v ELSE f[i]]

\* the value of the key k in the map f, d when there is none
Get(f, k, d) == IF k \in DOMAIN f THEN f[k] ELSE d

\* the state after construction of MapProxy and the layer
InitObjects ==
    /\ curCenterPoint = << >>
    /\ curCenterAreaId = -1
    /\ mapAreaDatas = NoItems
    /\ qryAreaIds = << >>
    /\ itemMap = NoItems
    /\ itemPool = << >>
    /\ nodeCount = 0
    /\ nowTime = StartTime
    /\ call = NoCall
    /\ qry = NoQry
    /\ upd = NoUpd
    /\ hist = NoHist
    /\ util = NoUtil
    /\ tiledMap = << >>
    /\ cameraPosition = v2(0, 0)
    /\ isTouch = FALSE
    /\ isMove = FALSE
    /\ maxMapX = 1
    /\ maxMapY = 1
    /\ touches = 0
    /\ touch = NoTouch
    /\ mapResConfigs = NoItems
    /\ isQryMyProperty = FALSE
    /\ net = << >>
    /\ cmd = NoCmd
    /\ mapPosTags = << >>
    /\ tag = NoTag
    /\ steps = 0

\* the state after construction of MapProxy and the layer, the map configured
Init ==
    /\ \E c \in MapConfigs : InitMapConfig(c)
    /\ InitObjects

\* the state before initMapConfig: the static fields of MapUtil as declared,
\* << >> standing for null, and the visible size of the device
InitConfig ==
    /\ tileSize = size(256, 128)
    /\ mapSize = size(20, 20)
    /\ mapOffsetPoint = << >>
    /\ zeroPixelPoint = v2(0, 0)
    /\ areaCellSize = << >>
    /\ areaSize = << >>
    /\ visibleSize \in ViewInputs
    /\ InitObjects

\* MapUtil.initMapConfig(map) for a TiledMap of tile size map.tile and map
\* size map.map on a node of size map.uit anchored at (0.5, 0.5)
initMapConfig(map) ==
    /\ mapOffsetPoint' = v2(map.uit.width \div 2, map.uit.height \div 2)
    /\ tileSize' = map.tile
    /\ mapSize' = map.map
    /\ zeroPixelPoint' = v2((map.map.width * map.tile.width) \div 2,
                            map.map.height * map.tile.height - map.tile.height \div 2)
    /\ areaCellSize' = size(ShowH(visibleSize, map.tile, map.map),
                            ShowH(visibleSize, map.tile, map.map))
    /\ areaSize' = size(CeilDiv(map.map.width, ShowH(visibleSize, map.tile, map.map)),
                        CeilDiv(map.map.height, ShowH(visibleSize, map.tile, map.map)))
    /\ UNCHANGED <<restVars, visibleSize, proxyVars, layerVars, nowTime, call, qry, upd, hist, util, steps>>

\* the events one setCurCenterPoint call emits, in order
CenterChangeEvent(point) ==
    [ name |-> "mapEenterChange", point |-> point, areaId |-> -1,
      addIds |-> << >>, removeIds |-> << >> ]

ShowAreaChangeEvent(point, areaId, addIds, removeIds) ==
    [ name |-> "mapShowAreaChange", point |-> point, areaId |-> areaId,
      addIds |-> addIds, removeIds |-> removeIds ]

\* variant: the stored Vec2 and the argument compared as references
CenterPointChanged_ByReference(cur, point) == TRUE

\* the test on the cell at the head of setCurCenterPoint
CenterPointChanged(cur, point) ==
    \/ cur = << >>
    \/ cur[1].x # point.x
    \/ cur[1].y # point.y

\* variant: only the first area is taken
AreaChanged_FirstOnly(curId, areaId) == curId = -1

\* the test on the area id in setCurCenterPoint
AreaChanged(curId, areaId) == curId = -1 \/ curId # areaId

\* variant: the queue is replaced by the new ids
QryAreaIdsAfter_Replace(ids, qryIndexs) == qryIndexs

\* this.qryAreaIds = this.qryAreaIds.concat(qryIndexs)
QryAreaIdsAfter(ids, qryIndexs) == ids \o qryIndexs

\* variant: mapShowAreaChange is emitted before the queue and the stored id
\* are updated
StateAtShowAreaChange_BeforeUpdate(qryBefore, qryIndexs, curId, areaId) ==
    [ qryAreaIds |-> qryBefore, curCenterAreaId |-> curId ]

\* the queue and the stored centre area id when mapShowAreaChange is
\* emitted: the concat and the assignment precede the emit
StateAtShowAreaChange(qryBefore, qryIndexs, curId, areaId) ==
    [ qryAreaIds |-> QryAreaIdsAfter(qryBefore, qryIndexs), curCenterAreaId |-> areaId ]

\* the area transition of setCurCenterPoint: what the branch under
\* "if (this._curCenterAreaId == -1 || this._curCenterAreaId != areaId)"
\* computes for the new area id
AreaChange(curId, datas, areaId, pixelPoint) ==
    LET datas1 == getMapAreaData(datas, areaId)
        areaData == datas1[areaId]
        newIds == get9GridVaildAreaIds(areaData.id)
        full == IsFullRefresh(curId, datas1, areaData)
        oldIds == IF full THEN << >> ELSE get9GridVaildAreaIds(curId)
        addIds == IF full THEN newIds ELSE PanAddIds(newIds, oldIds)
        removeIds == IF full THEN << >> ELSE PanRemoveIds(newIds, oldIds)
        firstAreaIds == IF full THEN FullFirstAreaIds(pixelPoint)
                        ELSE PanFirstAreaIds(addIds, areaData.id)
    IN [ datas |-> IF curId = -1 THEN datas1 ELSE getMapAreaData(datas1, curId),
         full |-> full,
         newIds |-> newIds,
         oldIds |-> oldIds,
         addIds |-> addIds,
         removeIds |-> removeIds,
         firstAreaIds |-> firstAreaIds,
         qryIndexs |-> QryIndexs(firstAreaIds, OtherAreaIds(firstAreaIds, addIds)) ]

\* setCurCenterPoint(point, pixelPoint); the mapShowAreaChange event is
\* handled by the layer with udpateShowAreas(addIds, removeIds)
setCurCenterPoint(point, pixelPoint) ==
    LET prev == [ NoCall EXCEPT !.point = point, !.pixelPoint = pixelPoint,
                                !.prevPoint = curCenterPoint,
                                !.prevAreaId = curCenterAreaId,
                                !.prevQry = qryAreaIds,
                                !.prevDatas = mapAreaDatas,
                                !.prevItems = DOMAIN itemMap ]
        areaPoint == getAreaPointByCellPoint(point.x, point.y)
        areaId == getIdByAreaPoint(areaPoint.x, areaPoint.y)
    IN
    /\ UNCHANGED <<cfgVars, nowTime, qry, upd, hist, util, cmdVars, tagVars>>
    /\ IF CenterPointChanged(curCenterPoint, point)
       THEN /\ curCenterPoint' = <<point>>
            /\ IF AreaChanged(curCenterAreaId, areaId)
               THEN \E c \in {AreaChange(curCenterAreaId, mapAreaDatas, areaId, pixelPoint)} :
                    \E e \in {StateAtShowAreaChange(qryAreaIds, c.qryIndexs, curCenterAreaId, areaId)} :
                    \E l \in {udpateShowAreas(Layer(itemMap, itemPool, nodeCount), c.addIds, c.removeIds)} :
                    /\ mapAreaDatas' = c.datas
                    /\ qryAreaIds' = QryAreaIdsAfter(qryAreaIds, c.qryIndexs)
                    /\ curCenterAreaId' = areaId
                    /\ itemMap' = l.items
                    /\ itemPool' = l.pool
                    /\ nodeCount' = l.count
                    /\ call' = [ prev EXCEPT
                                   !.ret = TRUE,
                                   !.path = IF c.full THEN "full" ELSE "pan",
                                   !.areaId = areaId,
                                   !.newIds = c.newIds,
                                   !.oldIds = c.oldIds,
                                   !.addIds = c.addIds,
                                   !.removeIds = c.removeIds,
                                   !.firstAreaIds = c.firstAreaIds,
                                   !.qryIndexs = c.qryIndexs,
                                   !.atEmit = e,
                                   !.events = << CenterChangeEvent(point),
                                                 ShowAreaChangeEvent(point, e.curCenterAreaId,
                                                                     c.addIds, c.removeIds) >> ]
               ELSE /\ UNCHANGED <<mapAreaDatas, qryAreaIds, curCenterAreaId, layerVars>>
                    /\ call' = [ prev EXCEPT
                                   !.ret = TRUE,
                                   !.path = "cell",
                                   !.areaId = areaId,
                                   !.events = << CenterChangeEvent(point) >> ]
       ELSE /\ UNCHANGED <<proxyVars, layerVars>>
            /\ call' = [ prev EXCEPT !.ret = FALSE, !.path = "same" ]

\* MapAreaData.checkAndUpdateQryTime on the descriptor of id
checkAndUpdateQryTime(id) ==
    /\ id \in DOMAIN mapAreaDatas
    /\ mapAreaDatas' = [mapAreaDatas EXCEPT ![id] = QryUpdated(mapAreaDatas[id], nowTime)]
    /\ qry' = [ done |-> TRUE, id |-> id, now |-> nowTime,
                before |-> mapAreaDatas[id].qryStartTime,
                after |-> QryUpdated(mapAreaDatas[id], nowTime).qryStartTime,
                ret |-> QryPermitted(mapAreaDatas[id], nowTime),
                lastEver |-> Get(hist.ever, id, -1),
                lastCur |-> Get(hist.cur, id, -1) ]
    /\ hist' = IF QryPermitted(mapAreaDatas[id], nowTime)
               THEN [ hist EXCEPT !.ever = Put(hist.ever, id, nowTime),
                                  !.cur = Put(hist.cur, id, nowTime) ]
               ELSE hist
    /\ UNCHANGED <<restVars, cfgVars, curCenterPoint, curCenterAreaId, qryAreaIds, layerVars,
                   nowTime, call, upd, util>>

\* a caller fetches the descriptor of id
GetMapAreaData(id) ==
    /\ mapAreaDatas' = getMapAreaData(mapAreaDatas, id)
    /\ UNCHANGED <<restVars, cfgVars, curCenterPoint, curCenterAreaId, qryAreaIds, layerVars,
                   nowTime, call, qry, upd, hist, util>>

\* initData: "_mapAreaDatas.length = MapUtil.areaCount"
initData ==
    /\ mapAreaDatas' = Truncated(mapAreaDatas, areaCount)
    /\ hist' = [ hist EXCEPT !.cur = NoItems, !.clears = hist.clears + 1 ]
    /\ UNCHANGED <<restVars, cfgVars, curCenterPoint, curCenterAreaId, qryAreaIds, layerVars,
                   nowTime, call, qry, upd, util>>

\* the assignments of MapProxy.clearData
ProxyCleared ==
    /\ curCenterPoint' = << >>
    /\ curCenterAreaId' = -1
    /\ mapAreaDatas' = Truncated(mapAreaDatas, 0)
    /\ qryAreaIds' = << >>
    /\ hist' = [ hist EXCEPT !.cur = NoItems, !.clears = hist.clears + 1 ]

clearData ==
    /\ ProxyCleared
    /\ UNCHANGED <<restVars, cfgVars, layerVars, nowTime, call, qry, upd, util>>

\* an operation of the layer, with the arguments args, that leaves the layer l
LayerStepWith(args, l) ==
    /\ itemMap' = l.items
    /\ itemPool' = l.pool
    /\ nodeCount' = l.count
    /\ upd' = [ args EXCEPT !.prevItems = itemMap, !.prevPool = itemPool,
                            !.prevCount = nodeCount ]
    /\ UNCHANGED <<restVars, cfgVars, proxyVars, nowTime, call, qry, hist, util, steps>>

\* an operation of the layer on an area that leaves the layer l
LayerStep(op, areaIndex, l) ==
    LayerStepWith([ NoUpd EXCEPT !.op = op, !.areaIndex = areaIndex ], l)

\* the layer is told the areas to show and to hide
UdpateShowAreas(addIndexs, removeIndexs) ==
    LayerStepWith([ NoUpd EXCEPT !.op = "udpateShowAreas", !.addIndexs = addIndexs,
                                 !.removeIndexs = removeIndexs ],
                  udpateShowAreas(Layer(itemMap, itemPool, nodeCount), addIndexs, removeIndexs))

AddArea(areaIndex) ==
    LayerStep("addArea", areaIndex, addArea(Layer(itemMap, itemPool, nodeCount), areaIndex))

RemoveArea(areaIndex) ==
    LayerStep("removeArea", areaIndex, removeArea(Layer(itemMap, itemPool, nodeCount), areaIndex))

\* removeItem(areaIndex, id); for an area that is not in the layer the call
\* throws before it changes anything
RemoveItem(areaIndex, id) ==
    LayerStepWith([ NoUpd EXCEPT !.op = "removeItem", !.areaIndex = areaIndex, !.id = id ],
                  IF areaIndex \in DOMAIN itemMap
                  THEN removeItem(Layer(itemMap, itemPool, nodeCount), areaIndex, id)
                  ELSE Layer(itemMap, itemPool, nodeCount))

\* content of an area arrives
AddItem(areaIndex, id) ==
    LayerStep("addItem", areaIndex, addItem(Layer(itemMap, itemPool, nodeCount), areaIndex, id))

OnUpdateCitys(areaIndex, addIds, removeIds, updateIds) ==
    LayerStep("onUpdateCitys", areaIndex,
              onUpdateCitys(Layer(itemMap, itemPool, nodeCount), areaIndex, addIds, removeIds, updateIds))

OnUpdateCity(city) ==
    LayerStep("onUpdateCity", getAreaIdByCellPoint(city.x, city.y),
              onUpdateCity(Layer(itemMap, itemPool, nodeCount), city))

\* time passes
Tick(d) ==
    /\ nowTime + d <= MaxClock
    /\ nowTime' = nowTime + d
    /\ UNCHANGED <<restVars, cfgVars, proxyVars, layerVars, call, qry, upd, hist, util>>

----------------------------------------------------------------------------
(* MapLogic: the camera, the touch handlers, scrollToMapPoint *)

\* variant: the position is not limited
Clamped_Free(v, m) == v

\* Math.min(m, Math.max(-m, v))
Clamped(v, m) == Min(m, Max(-m, v))

\* toCameraPoint: the pixel point of the cell, limited to the bounds
toCameraPoint(point) ==
    v2(Clamped(mapCellToPixelPoint(point).x, maxMapX),
       Clamped(mapCellToPixelPoint(point).y, maxMapY))

\* viewPointToWorldPoint for a map node and a canvas anchored at (0.5, 0.5)
viewPointToWorldPoint(point) ==
    v2(point.x + tiledMap.width \div 2 - visibleSize.width \div 2 + cameraPosition.x,
       point.y + tiledMap.height \div 2 - visibleSize.height \div 2 + cameraPosition.y)

TouchMapEvent(mapPoint, clickCenterPoint) ==
    [ name |-> "touchMap", mapPoint |-> mapPoint, clickCenterPoint |-> clickCenterPoint ]

MoveMapEvent ==
    [ name |-> "moveMap", mapPoint |-> v2(0, 0), clickCenterPoint |-> v2(0, 0) ]

\* what a handler of MapLogic leaves alone besides the proxy and the layer
LogicFrame ==
    UNCHANGED <<cfgVars, nowTime, qry, upd, hist, util, cmdVars, tagVars>>

\* the record of a handler that starts in the current state
TouchRecord(op, arg) ==
    [ NoTouch EXCEPT !.op = op, !.arg = arg,
                     !.prevCamera = cameraPosition,
                     !.prevCenter = curCenterPoint,
                     !.prevIsTouch = isTouch,
                     !.movedSinceBegan = touch.movedSinceBegan ]

\* setTiledMap: the bounds of the camera from the node of the TiledMap,
\* the node initMapConfig was given; the touch handlers are registered
setTiledMap ==
    /\ tiledMap = << >>
    /\ tiledMap' = size(2 * mapOffsetPoint.x, 2 * mapOffsetPoint.y)
    /\ maxMapX' = (2 * mapOffsetPoint.x - visibleSize.width) \div 2
    /\ maxMapY' = (2 * mapOffsetPoint.y - visibleSize.height) \div 2
    /\ touch' = TouchRecord("setTiledMap", v2(0, 0))
    /\ UNCHANGED <<cameraPosition, isTouch, isMove, touches, proxyVars, layerVars, call>>
    /\ LogicFrame

\* onTouchBegan, a touch begins on the map node
onTouchBegan ==
    /\ tiledMap # << >>
    /\ touches < MaxTouches
    /\ touches' = touches + 1
    /\ isTouch' = TRUE
    /\ isMove' = FALSE
    /\ touch' = [ TouchRecord("onTouchBegan", v2(0, 0)) EXCEPT !.movedSinceBegan = FALSE ]
    /\ UNCHANGED <<tiledMap, cameraPosition, maxMapX, maxMapY, proxyVars, layerVars, call>>
    /\ LogicFrame

\* onTouchMove, a touch that has begun moves by delta
onTouchMove(delta) ==
    /\ tiledMap # << >>
    /\ touches > 0
    /\ UNCHANGED <<tiledMap, isTouch, maxMapX, maxMapY, touches>>
    /\ IF isTouch /\ (delta.x # 0 \/ delta.y # 0)
       THEN \E pixelPoint \in { v2(Clamped(cameraPosition.x - delta.x, maxMapX),
                                  Clamped(cameraPosition.y - delta.y, maxMapY)) } :
            /\ isMove' = TRUE
            /\ cameraPosition' = pixelPoint
            /\ setCurCenterPoint(mapPixelToCellPoint(pixelPoint), pixelPoint)
            /\ touch' = [ TouchRecord("onTouchMove", delta) EXCEPT !.movedSinceBegan = TRUE ]
       ELSE /\ UNCHANGED <<isMove, cameraPosition, proxyVars, layerVars, call>>
            /\ LogicFrame
            /\ touch' = TouchRecord("onTouchMove", delta)

\* onTouchEnd, a touch that has begun ends at the UI location
onTouchEnd(location) ==
    /\ tiledMap # << >>
    /\ touches > 0
    /\ touches' = touches - 1
    /\ isTouch' = FALSE
    /\ isMove' = FALSE
    /\ touch' = [ TouchRecord("onTouchEnd", location) EXCEPT
                    !.events =
                        IF isMove = FALSE
                        THEN << TouchMapEvent(
                                  worldPixelToMapCellPoint(viewPointToWorldPoint(location)),
                                  mapCellToPixelPoint(
                                      worldPixelToMapCellPoint(viewPointToWorldPoint(location)))) >>
                        ELSE << MoveMapEvent >> ]
    /\ UNCHANGED <<tiledMap, cameraPosition, maxMapX, maxMapY, proxyVars, layerVars, call>>
    /\ LogicFrame

\* onTouchCancel, a touch that has begun is cancelled
onTouchCancel ==
    /\ tiledMap # << >>
    /\ touches > 0
    /\ touches' = touches - 1
    /\ isTouch' = FALSE
    /\ isMove' = FALSE
    /\ touch' = TouchRecord("onTouchCancel", v2(0, 0))
    /\ UNCHANGED <<tiledMap, cameraPosition, maxMapX, maxMapY, proxyVars, layerVars, call>>
    /\ LogicFrame

\* scrollToMapPoint(point)
scrollToMapPoint(point) ==
    /\ cameraPosition' = toCameraPoint(point)
    /\ setCurCenterPoint(point, mapCellToPixelPoint(point))
    /\ touch' = TouchRecord("scrollToMapPoint", point)
    /\ UNCHANGED <<tiledMap, isTouch, isMove, maxMapX, maxMapY, touches>>

\* a use of MapUtil that leaves the record u
UtilStep(u) ==
    /\ util' = u
    /\ UNCHANGED <<restVars, cfgVars, proxyVars, layerVars, nowTime, call, qry, upd, hist>>

\* a caller takes the id of a cell and the cell of that id
CellIdOf(point) ==
    UtilStep([ NoUtil EXCEPT
                 !.op = "getIdByCellPoint", !.point = point,
                 !.id = getIdByCellPoint(point.x, point.y),
                 !.back = getCellPointById(getIdByCellPoint(point.x, point.y)) ])

\* a caller takes the id of an area point and the area point of that id
AreaIdOf(point) ==
    UtilStep([ NoUtil EXCEPT
                 !.op = "getIdByAreaPoint", !.point = point,
                 !.id = getIdByAreaPoint(point.x, point.y),
                 !.back = getAreaPointById(getIdByAreaPoint(point.x, point.y)) ])

\* a caller takes the pixel point of a cell and the cell of that pixel point
CellToPixel(point) ==
    UtilStep([ NoUtil EXCEPT
                 !.op = "mapCellToPixelPoint", !.point = point,
                 !.image = mapCellToPixelPoint(point),
                 !.back = mapPixelToCellPoint(mapCellToPixelPoint(point)) ])

\* a caller takes the cell of a world pixel point and the world pixel point
\* of that cell
WorldPixelToCell(point) ==
    UtilStep([ NoUtil EXCEPT
                 !.op = "worldPixelToMapCellPoint", !.point = point,
                 !.image = worldPixelToMapCellPoint(point),
                 !.back = mapCellToWorldPixelPoint(worldPixelToMapCellPoint(point)) ])

\* a caller takes the 9-grids of an id
NineGridOf(id) ==
    UtilStep([ NoUtil EXCEPT
                 !.op = "get9Grid", !.id = id,
                 !.ids = get9GridAreaIds(id),
                 !.cellIds = get9GridCellIds(id),
                 !.vaildIds = get9GridVaildAreaIds(id) ])

\* a caller takes the cells around the city of a role at the cell id
SideIdsOf(id) ==
    UtilStep([ NoUtil EXCEPT
                 !.op = "getSideIdsForRoleCity", !.id = id,
                 !.point = getCellPointById(id),
                 !.cellIds = getSideIdsForRoleCity(id) ])

\* a caller takes the area id of a cell and fetches the descriptor of it
AreaDataOfCell(point) ==
    /\ util' = [ NoUtil EXCEPT
                   !.op = "getAreaIdByCellPoint", !.point = point,
                   !.id = getAreaIdByCellPoint(point.x, point.y),
                   !.data = getMapAreaData(mapAreaDatas,
                               getAreaIdByCellPoint(point.x, point.y))[
                                   getAreaIdByCellPoint(point.x, point.y)] ]
    /\ mapAreaDatas' = getMapAreaData(mapAreaDatas, getAreaIdByCellPoint(point.x, point.y))
    /\ UNCHANGED <<restVars, cfgVars, curCenterPoint, curCenterAreaId, qryAreaIds, layerVars,
                   nowTime, call, qry, upd, hist>>

----------------------------------------------------------------------------
(* MapProxy: the resource configurations and the position tags *)

\* the key of a configuration: type + "_" + level, one string for each pair
\* of numbers
ConfKey(type, level) == <<type, level>>

\* Map.set: the value of a key already in the map is replaced in place, a new
\* key is added at the end
MapSet(m, key, cfg) ==
    IF \E i \in 1..Len(m) : m[i].key = key
    THEN [ i \in 1..Len(m) |-> IF m[i].key = key THEN [key |-> key, cfg |-> cfg] ELSE m[i] ]
    ELSE Append(m, [key |-> key, cfg |-> cfg])

RECURSIVE ConfigsFrom(_, _, _)
ConfigsFrom(m, configList, i) ==
    IF i > Len(configList) THEN m
    ELSE ConfigsFrom(MapSet(m, ConfKey(configList[i].type, configList[i].level), configList[i]),
                     configList, i + 1)

\* setNationMapConfig(configList): the map is cleared and every element of
\* the list is set under its key
setNationMapConfig(configList) == ConfigsFrom(NoItems, configList, 1)

\* hasResConfig: "_mapResConfigs.size > 0"
hasResConfig(configs) == Len(configs) > 0

\* a position tag
MapTagPos(x, y, name) == [x |-> x, y |-> y, name |-> name]

\* updateMapPosTags(posTag): the tags are replaced by one tag for every
\* element of the list
updateMapPosTags(posTag) ==
    [ i \in 1..Len(posTag) |-> MapTagPos(posTag[i].x, posTag[i].y, posTag[i].name) ]

\* removeMapPosTag(x, y): the tags with "tag.x != x || y != tag.y" are kept
removeMapPosTag(tags, x, y) == SelectSeq(tags, LAMBDA t : t.x # x \/ y # t.y)

\* isPosTag(x, y)
isPosTag(tags, x, y) == \E i \in 1..Len(tags) : tags[i].x = x /\ tags[i].y = y

\* addMapPosTag(x, y, name): the tag is pushed when no tag is at (x, y)
addMapPosTag(tags, x, y, name) ==
    IF \E i \in 1..Len(tags) : tags[i].x = x /\ tags[i].y = y
    THEN tags
    ELSE Append(tags, MapTagPos(x, y, name))

\* a call on the position tags that leaves the tags newTags
TagStep(t, newTags) ==
    /\ mapPosTags' = newTags
    /\ tag' = [ t EXCEPT !.prevTags = mapPosTags ]
    /\ UNCHANGED <<cfgVars, proxyVars, layerVars, nowTime, call, qry, upd, hist, util,
                   logicVars, cmdVars>>

UpdateMapPosTags(posTag) ==
    TagStep([ NoTag EXCEPT !.op = "updateMapPosTags", !.posTag = posTag ],
            updateMapPosTags(posTag))

RemoveMapPosTag(x, y) ==
    TagStep([ NoTag EXCEPT !.op = "removeMapPosTag", !.x = x, !.y = y ],
            removeMapPosTag(mapPosTags, x, y))

AddMapPosTag(x, y, name) ==
    TagStep([ NoTag EXCEPT !.op = "addMapPosTag", !.x = x, !.y = y, !.name = name ],
            addMapPosTag(mapPosTags, x, y, name))

----------------------------------------------------------------------------
(* MapCommand: entering the map *)

\* the names of the queries in ServerConfig and of the event in LogicEvent
nationMap_config == "nationMap_config"
role_myProperty == "role_myProperty"
role_posTagList == "role_posTagList"
LogicEvent_enterMap == "enterMap"

\* what a call sends and emits
Effects(sent, events) == [sent |-> sent, events |-> events]

\* enterMap(): the configuration query when there is no configuration, else
\* the my-property query when no my-property response was taken, else the
\* event
enterMap(configs, isQry) ==
    IF hasResConfig(configs) = FALSE THEN Effects(<<nationMap_config>>, << >>)
    ELSE IF isQry = FALSE THEN Effects(<<role_myProperty>>, << >>)
    ELSE Effects(<< >>, <<LogicEvent_enterMap>>)

\* the sequence without its i-th element
Without(s, i) == SubSeq(s, 1, i - 1) \o SubSeq(s, i + 1, Len(s))

CmdFrame ==
    UNCHANGED <<cfgVars, layerVars, nowTime, call, qry, upd, util, logicVars>>

\* the record of a handler that called enterMap() or not
CmdRecord(op, code, sent, entered, e, ok) ==
    [ op |-> op, code |-> code, sent |-> sent, events |-> e.events, entered |-> entered,
      enterSent |-> e.sent, okSinceClear |-> ok,
      waiting |-> (cmd.waiting \/ op = "enterMap") /\ e.events = << >>,
      parity |-> (cmd.parity + 1) % 2 ]

\* enterMap() is called when the map scene is to be entered
EnterMap ==
    /\ Len(net) < MaxPending
    /\ \E e \in {enterMap(mapResConfigs, isQryMyProperty)} :
          /\ net' = net \o e.sent
          /\ cmd' = CmdRecord("enterMap", 0, e.sent, TRUE, e, cmd.okSinceClear)
    /\ UNCHANGED <<mapResConfigs, isQryMyProperty, proxyVars, hist, tagVars>>
    /\ CmdFrame

\* the response to the configuration query net[i] arrives
onNationMapConfig(i, code, Confs) ==
    /\ i \in 1..Len(net) /\ net[i] = nationMap_config
    /\ IF code = 0
       THEN \E configs \in {setNationMapConfig(Confs)} :
            \E e \in {enterMap(configs, isQryMyProperty)} :
               /\ mapResConfigs' = configs
               /\ net' = Without(net, i) \o e.sent
               /\ cmd' = CmdRecord("onNationMapConfig", code, e.sent, TRUE, e, cmd.okSinceClear)
       ELSE /\ net' = Without(net, i)
            /\ cmd' = CmdRecord("onNationMapConfig", code, << >>, FALSE,
                                Effects(<< >>, << >>), cmd.okSinceClear)
            /\ UNCHANGED mapResConfigs
    /\ UNCHANGED <<isQryMyProperty, proxyVars, hist, tagVars>>
    /\ CmdFrame

\* the response to the my-property query net[i] arrives
onRoleMyProperty(i, code) ==
    /\ i \in 1..Len(net) /\ net[i] = role_myProperty
    /\ IF code = 0
       THEN \E e \in {enterMap(mapResConfigs, TRUE)} :
               /\ isQryMyProperty' = TRUE
               /\ net' = Without(net, i) \o <<role_posTagList>> \o e.sent
               /\ cmd' = CmdRecord("onRoleMyProperty", code, <<role_posTagList>> \o e.sent,
                                   TRUE, e, TRUE)
       ELSE /\ net' = Without(net, i)
            /\ cmd' = CmdRecord("onRoleMyProperty", code, << >>, FALSE,
                                Effects(<< >>, << >>), cmd.okSinceClear)
            /\ UNCHANGED isQryMyProperty
    /\ UNCHANGED <<mapResConfigs, proxyVars, hist, tagVars>>
    /\ CmdFrame

\* the response to the tag list query net[i] arrives
onPosTagList(i, code, pos_tags) ==
    /\ i \in 1..Len(net) /\ net[i] = role_posTagList
    /\ net' = Without(net, i)
    /\ cmd' = CmdRecord("onPosTagList", code, << >>, FALSE, Effects(<< >>, << >>),
                        cmd.okSinceClear)
    /\ IF code = 0
       THEN /\ mapPosTags' = updateMapPosTags(pos_tags)
            /\ tag' = [ NoTag EXCEPT !.op = "updateMapPosTags", !.posTag = pos_tags,
                                     !.prevTags = mapPosTags ]
       ELSE UNCHANGED tagVars
    /\ UNCHANGED <<mapResConfigs, isQryMyProperty, proxyVars, hist>>
    /\ CmdFrame

\* variant: the flag of the my-property response outlives clearData
MapCommand_clearData_KeepFlag ==
    /\ ProxyCleared
    /\ cmd' = CmdRecord("clearData", 0, << >>, FALSE, Effects(<< >>, << >>), FALSE)
    /\ UNCHANGED <<isQryMyProperty, mapResConfigs, net, tagVars>>
    /\ CmdFrame

\* MapCommand.clearData: the proxies are cleared and "_isQryMyProperty =
\* false"
MapCommand_clearData ==
    /\ ProxyCleared
    /\ isQryMyProperty' = FALSE
    /\ cmd' = CmdRecord("clearData", 0, << >>, FALSE, Effects(<< >>, << >>), FALSE)
    /\ UNCHANGED <<mapResConfigs, net, tagVars>>
    /\ CmdFrame

----------------------------------------------------------------------------
(* Inputs *)

\* the cell at offset (ox, oy) in the area (ax, ay)
CellOf(ax, ay, ox, oy) ==
    v2(ax * areaCellSize.width + ox, ay * areaCellSize.height + oy)

\* cells in and around the grid; the cells with a negative coordinate or in
\* an area beyond the last one are outside the map: scrollToMapPoint passes
\* on any cell, and a drag to the edge of the map rectangle leaves the
\* diamond of cells (the camera at (-896, 920) of the 20 x 20 map is over
\* the cell (-1, 6))
CellInputs ==
    { CellOf(0, 0, 0, 0), CellOf(0, 0, 1, 0), CellOf(1, 0, 0, 0), CellOf(1, 1, 2, 3),
      CellOf(2, 1, 0, 0), CellOf(2, 2, 1, 1), CellOf(4, 4, 0, 0), CellOf(1, 4, 0, 1),
      CellOf(3, 4, 1, 0), CellOf(0, 2, 0, 0), CellOf(0, 0, -1, 6), CellOf(0, 0, -2, 6) }

\* the pixel point passed with a cell: the centre of the cell, as
\* scrollToMapPoint passes it, or a camera position elsewhere in the cell
PixelInputs(point) ==
    { mapCellToPixelPoint(point),
      v2(mapCellToPixelPoint(point).x + tileSize.width \div 4, mapCellToPixelPoint(point).y) }

\* the time steps of the clock
TickSteps == {1000, 5000, 6000}

\* the area ids the throttle is exercised on
QryIdInputs == {0, 1}

\* the cells the centre is set to while the throttle runs: two adjacent
\* areas, and a cell beyond the last row of areas (the camera in the lower
\* left corner of the 20 x 20 map, at (-1920, -920), is over the cell (9, 24))
ProxyCellInputs == { CellOf(0, 0, 0, 0), CellOf(1, 0, 0, 0), CellOf(1, 3, 1, 0) }

\* the area id the throttle is exercised on while the centre moves
ProxyQryIdInputs == {0}

\* the time steps of the clock while the centre moves
ProxyTickSteps == {10000}

\* the areas the layer is told to show and to hide: <<addIndexs, removeIndexs>>
AreaNotifyInputs ==
    { << <<0, 1>>, << >> >>, << <<1>>, <<0>> >>, << <<0>>, <<1>> >>, << << >>, <<0, 1>> >>,
      << <<0, 1>>, <<0>> >> }

\* the areas and the city ids of the content updates
LayerAreaInputs == {0, 1}

CityIdInputs == {1, 2}

\* the addIds, removeIds and updateIds of onUpdateCitys
AddIdListInputs == { << >>, <<1>>, <<1, 2>> }

RemoveIdListInputs == { << >>, <<1>> }

UpdateIdListInputs == { <<2>> }

\* the cities of onUpdateCity: city 1 in area 0, city 2 in area 1
CityInputs ==
    { [cityId |-> 1, x |-> CellOf(0, 0, 1, 1).x, y |-> CellOf(0, 0, 1, 1).y],
      [cityId |-> 2, x |-> CellOf(1, 0, 0, 0).x, y |-> CellOf(1, 0, 0, 0).y] }

\* how far beyond the grid the points passed to MapUtil lie
Margin == 2

\* the cells passed to MapUtil: the grid and the cells around it
UtilCellInputs ==
    { v2(x, y) : x \in -Margin..(mapSize.width + Margin - 1),
                 y \in -Margin..(mapSize.height + Margin - 1) }

\* the area points passed to MapUtil: the area grid and the points around it
UtilAreaInputs ==
    { v2(x, y) : x \in -Margin..(areaSize.width + Margin - 1),
                 y \in -Margin..(areaSize.height + Margin - 1) }

\* the ids passed to MapUtil: the ids of the cells, the ids of the areas
\* among them, and the ids around them
UtilIdInputs == -Margin..(mapSize.width * mapSize.height + Margin - 1)

\* the distance of the world pixel points passed to MapUtil, in x and in y
PixelStepX == 328

PixelStepY == 168

\* the world pixel points passed to MapUtil: a lattice over the rectangle of
\* the map, (W + H) * tw / 2 by (W + H) * th / 2 pixels, and around it
WorldPixelInputs ==
    { v2(PixelStepX * i, PixelStepY * j) :
        i \in -1..(((mapSize.width + mapSize.height) * tileSize.width) \div (2 * PixelStepX) + 1),
        j \in -1..(((mapSize.width + mapSize.height) * tileSize.height) \div (2 * PixelStepY) + 1) }

\* the deltas of the touch moves: none, drags beyond the bounds of the
\* camera, a drag within them
DeltaInputs == { v2(0, 0), v2(-2000, -1000), v2(5000, 3000), v2(300, 200) }

\* the UI locations a touch ends at: the middle of the screen
LocationInputs == { v2(visibleSize.width \div 2, visibleSize.height \div 2) }

\* the cells scrollToMapPoint is called with: the first cell of the map,
\* whose centre is beyond the bounds of the camera, and a cell in the middle
ScrollInputs == { v2(0, 0), v2(mapSize.width \div 2, mapSize.height \div 2) }

\* the codes of a response: 0 for success
CodeInputs == {0, 1}

\* the configuration lists of a response: none, one, two of one key, two keys
ConfsInputs ==
    { << >>,
      << [type |-> 52, level |-> 1, name |-> "a"] >>,
      << [type |-> 52, level |-> 1, name |-> "a"], [type |-> 52, level |-> 1, name |-> "b"] >>,
      << [type |-> 52, level |-> 1, name |-> "a"], [type |-> 53, level |-> 1, name |-> "c"] >> }

\* the positions and names of tags
TagXInputs == {1, 2}

TagYInputs == {1, 2}

TagNameInputs == {"a", "b"}

\* the tag lists of a response
PosTagInputs ==
    { << >>,
      << MapTagPos(1, 1, "a") >>,
      << MapTagPos(1, 1, "a"), MapTagPos(2, 1, "b") >>,
      << MapTagPos(1, 1, "a"), MapTagPos(1, 1, "b") >> }

----------------------------------------------------------------------------
(* Specifications *)

\* one more operation within the bound
Step(A) == steps < MaxSteps /\ steps' = steps + 1 /\ A

\* the viewport: any sequence of setCurCenterPoint calls
NextCenter ==
    \E point \in CellInputs : \E pixelPoint \in PixelInputs(point) :
        Step(setCurCenterPoint(point, pixelPoint)) /\ UNCHANGED logicVars

SpecCenter == Init /\ [][NextCenter]_vars

\* the throttle: descriptors are fetched and checked while time passes
NextQry ==
    \/ \E id \in QryIdInputs : GetMapAreaData(id) /\ UNCHANGED steps
    \/ \E id \in QryIdInputs : checkAndUpdateQryTime(id) /\ UNCHANGED steps
    \/ \E d \in TickSteps : Tick(d) /\ UNCHANGED steps

SpecQry == Init /\ [][NextQry]_vars

\* the proxy: the centre moves and is cleared while descriptors are fetched
\* and checked and time passes
NextProxy ==
    \/ \E point \in ProxyCellInputs :
          Step(setCurCenterPoint(point, mapCellToPixelPoint(point))) /\ UNCHANGED logicVars
    \/ Step(clearData)
    \/ Step(initData)
    \/ \E id \in ProxyQryIdInputs : GetMapAreaData(id) /\ UNCHANGED steps
    \/ \E id \in ProxyQryIdInputs : checkAndUpdateQryTime(id) /\ UNCHANGED steps
    \/ \E d \in ProxyTickSteps : Tick(d) /\ UNCHANGED steps

SpecProxy == Init /\ [][NextProxy]_vars

\* the layer: areas are shown and hidden while content arrives
NextLayer ==
    \/ \E n \in AreaNotifyInputs : UdpateShowAreas(n[1], n[2])
    \/ \E areaIndex \in LayerAreaInputs : \E id \in CityIdInputs : AddItem(areaIndex, id)
    \/ \E areaIndex \in LayerAreaInputs :
          \E addIds \in AddIdListInputs : \E removeIds \in RemoveIdListInputs :
          \E updateIds \in UpdateIdListInputs :
              OnUpdateCitys(areaIndex, addIds, removeIds, updateIds)
    \/ \E city \in CityInputs : OnUpdateCity(city)
    \/ \E areaIndex \in LayerAreaInputs : AddArea(areaIndex)
    \/ \E areaIndex \in LayerAreaInputs : RemoveArea(areaIndex)
    \/ \E areaIndex \in LayerAreaInputs : \E id \in CityIdInputs : RemoveItem(areaIndex, id)

SpecLayer == Init /\ [][NextLayer]_vars

\* the configuration: initMapConfig for any TiledMap on any device
NextConfig == \E map \in TiledMapInputs : initMapConfig(map)

SpecConfig == InitConfig /\ [][NextConfig]_vars

\* one more operation of the map view within the bound
LogicStep(A) == steps < MaxLogicSteps /\ steps' = steps + 1 /\ A

\* the map view: the TiledMap is set, touches begin, move, end and are
\* cancelled, and the map is scrolled to a cell
NextLogic ==
    \/ LogicStep(setTiledMap)
    \/ LogicStep(onTouchBegan)
    \/ \E delta \in DeltaInputs : LogicStep(onTouchMove(delta))
    \/ \E location \in LocationInputs : LogicStep(onTouchEnd(location))
    \/ LogicStep(onTouchCancel)
    \/ \E point \in ScrollInputs : LogicStep(scrollToMapPoint(point))

SpecLogic == Init /\ [][NextLogic]_vars

\* entering the map: enterMap() is called, the responses to the queries sent
\* arrive in any order with any code, and the data is cleared
NextCmd ==
    \/ EnterMap /\ UNCHANGED steps
    \/ \E i \in 1..Len(net) : \E code \in CodeInputs : \E Confs \in ConfsInputs :
          onNationMapConfig(i, code, Confs) /\ UNCHANGED steps
    \/ \E i \in 1..Len(net) : \E code \in CodeInputs :
          onRoleMyProperty(i, code) /\ UNCHANGED steps
    \/ \E i \in 1..Len(net) : \E code \in CodeInputs : \E pos_tags \in PosTagInputs :
          onPosTagList(i, code, pos_tags) /\ UNCHANGED steps
    \/ steps < MaxClears /\ steps' = steps + 1 /\ MapCommand_clearData

SpecCmd == Init /\ [][NextCmd]_vars

\* a response with code 0 arrives
Answer ==
    /\ \/ \E i \in 1..Len(net) : \E Confs \in ConfsInputs : onNationMapConfig(i, 0, Confs)
       \/ \E i \in 1..Len(net) : onRoleMyProperty(i, 0)
       \/ \E i \in 1..Len(net) : \E pos_tags \in PosTagInputs : onPosTagList(i, 0, pos_tags)
    /\ UNCHANGED steps

\* entering the map when every query is answered with code 0
NextCmdLive ==
    \/ EnterMap /\ UNCHANGED steps
    \/ Answer

\* NetManager delivers the response of the server to every query sent
SpecCmdLive == Init /\ [][NextCmdLive]_vars /\ WF_vars(Answer)

TagOp(A) == steps < MaxTagSteps /\ steps' = steps + 1 /\ A

\* the position tags: the list of the server is taken, tags are added and
\* removed
NextTag ==
    \/ \E posTag \in PosTagInputs : TagOp(UpdateMapPosTags(posTag))
    \/ \E x \in TagXInputs : \E y \in TagYInputs : \E name \in TagNameInputs :
          TagOp(AddMapPosTag(x, y, name))
    \/ \E x \in TagXInputs : \E y \in TagYInputs : TagOp(RemoveMapPosTag(x, y))

SpecTag == Init /\ [][NextTag]_vars

\* the functions of MapUtil: one use, on any argument
NextUtil ==
    \/ steps = 0 /\ \E point \in UtilCellInputs : Step(CellIdOf(point))
    \/ steps = 0 /\ \E point \in UtilAreaInputs : Step(AreaIdOf(point))
    \/ steps = 0 /\ \E point \in UtilCellInputs : Step(CellToPixel(point))
    \/ steps = 0 /\ \E point \in WorldPixelInputs : Step(WorldPixelToCell(point))
    \/ steps = 0 /\ \E id \in UtilIdInputs : Step(NineGridOf(id))
    \/ steps = 0 /\ \E point \in UtilCellInputs : Step(AreaDataOfCell(point))
    \/ steps = 0 /\ \E id \in UtilIdInputs : Step(SideIdsOf(id))

SpecUtil == Init /\ [][NextUtil]_vars

----------------------------------------------------------------------------
(* Properties of setCurCenterPoint, stated on the record of the last call *)

\* a setCurCenterPoint call has been made
Called == call.path # "none"

\* the last call was an area transition
Transition == call.path \in {"full", "pan"}

\* the areas resident in the layer
Resident == DOMAIN itemMap

AbsDiff(a, b) == IF a >= b THEN a - b ELSE b - a

\* the elements of s that are not in the set t, in the order of s
Minus(s, t) == SelectSeq(s, LAMBDA e : e \notin t)

\* the number of occurrences of e in s
Count(s, e) == Cardinality({i \in 1..Len(s) : s[i] = e})

\* s is a prefix of t
IsPrefix(s, t) == Len(s) <= Len(t) /\ SubSeq(t, 1, Len(s)) = s

\* C1: after any sequence of setCurCenterPoint calls the resident areas are
\* exactly the valid 9-neighbourhood of the current centre area.
C1_ResidentIsNeighbourhood ==
    Called => Resident = Range(get9GridVaildAreaIds(curCenterAreaId))

\* C2: a call with the stored centre cell returns false, emits nothing and
\* leaves the centre cell, the centre area id, the fetch queue and the
\* descriptors unchanged.
C2_SameCellIsNoOp ==
    (Called /\ call.prevPoint = <<call.point>>) =>
        /\ call.ret = FALSE
        /\ call.events = NoEvent
        /\ curCenterPoint = call.prevPoint
        /\ curCenterAreaId = call.prevAreaId
        /\ qryAreaIds = call.prevQry
        /\ mapAreaDatas = call.prevDatas

C2_Witness ==
    /\ Called
    /\ call.prevPoint = <<call.point>>
    /\ Len(qryAreaIds) > 0
    /\ call.ret = FALSE

\* C3: a call with a new cell in the area of the stored centre area id
\* updates the centre cell, emits center-changed only and returns true; the
\* centre area id and the fetch queue are unchanged.
C3_SameAreaKeepsArea ==
    ( /\ Called
      /\ call.prevPoint # << >>
      /\ call.prevPoint # <<call.point>>
      /\ getAreaIdByCellPoint(call.point.x, call.point.y) = call.prevAreaId ) =>
        /\ call.ret = TRUE
        /\ curCenterPoint = <<call.point>>
        /\ call.events = << CenterChangeEvent(call.point) >>
        /\ curCenterAreaId = call.prevAreaId
        /\ qryAreaIds = call.prevQry

C5_PanDiff ==
    call.path = "pan" =>
        /\ call.addIds = Minus(get9GridVaildAreaIds(call.areaId),
                               Range(get9GridVaildAreaIds(call.prevAreaId)))
        /\ call.removeIds = Minus(get9GridVaildAreaIds(call.prevAreaId),
                                  Range(get9GridVaildAreaIds(call.areaId)))
        /\ Range(call.addIds) \cap Range(call.removeIds) = {}

C5_Witness ==
    /\ call.path = "pan"
    /\ Len(call.addIds) > 0
    /\ Len(call.removeIds) > 0
    /\ Range(get9GridVaildAreaIds(call.areaId))
         \cap Range(get9GridVaildAreaIds(call.prevAreaId)) # {}

\* C6: no id a call appends to the fetch queue was resident immediately
\* before the call.
C6_NoResidentRequeued ==
    Called => \A id \in Range(call.qryIndexs) : id \notin call.prevItems

\* C7: on the incremental path the priority list is the new centre area id
\* when that id is in addIds and is empty otherwise; when the new centre is
\* not newly added the ids appended to the fetch queue are addIds.
C7_PanPriority ==
    call.path = "pan" =>
        /\ call.firstAreaIds = IF call.areaId \in Range(call.addIds)
                               THEN <<call.areaId>> ELSE << >>
        /\ call.areaId \notin Range(call.addIds) =>
              qryAreaIds = call.prevQry \o call.addIds

\* C8: an area transition appends the priority ids in their order followed
\* by the ids of addIds that are not priority ids, in addIds order; every id
\* of addIds occurs in the appended ids, and none occurs twice.
C8_QueueIncrement ==
    Transition =>
        /\ qryAreaIds = call.prevQry
              \o (call.firstAreaIds \o Minus(call.addIds, Range(call.firstAreaIds)))
        /\ \A id \in Range(call.addIds) :
              Count(SubSeq(qryAreaIds, Len(call.prevQry) + 1, Len(qryAreaIds)), id) = 1

\* C9: the fetch queue before a call is a prefix of the fetch queue after it.
C9_QueueAppendOnly == [][IsPrefix(qryAreaIds, qryAreaIds')]_vars

C9_Witness ==
    /\ Transition
    /\ Len(call.prevQry) > 0
    /\ Len(qryAreaIds) > Len(call.prevQry)

\* C13: the centre state moves from uninitialized (centre area id -1) to
\* settled only: a centre area id that is not -1 is not -1 after a step, and
\* a step that changes the centre cell or the centre area id is a
\* setCurCenterPoint call.
C13_OnlyForward ==
    [][ /\ curCenterAreaId # -1 => curCenterAreaId' # -1
        /\ (curCenterPoint' # curCenterPoint \/ curCenterAreaId' # curCenterAreaId) =>
              /\ call' # call
              /\ call'.ret = TRUE
              /\ curCenterPoint' = <<call'.point>> ]_vars

\* the last call changed the cell
CellChanged == Called /\ call.prevPoint # <<call.point>>

\* the last call changed the cell, and the area of the new cell is not the
\* stored centre area, or there is no stored centre area
AreaTransition ==
    /\ CellChanged
    /\ \/ call.prevAreaId = -1
       \/ getAreaIdByCellPoint(call.point.x, call.point.y) # call.prevAreaId

\* C14: a call that changes the cell emits center-changed exactly once, as
\* the first event; on an area transition it then emits
\* visible-areas-changed exactly once, when the fetch queue has been extended
\* and the stored centre area id is the new area id, and the event carries
\* the new centre cell, that area id, addIds and removeIds.
C14_EventOrder ==
    /\ CellChanged =>
          /\ Len(call.events) >= 1
          /\ call.events[1] = CenterChangeEvent(call.point)
          /\ Count([i \in 1..Len(call.events) |-> call.events[i].name], "mapEenterChange") = 1
    /\ AreaTransition =>
          /\ Len(call.events) = 2
          /\ call.events[2] =
                ShowAreaChangeEvent(call.point,
                                    getAreaIdByCellPoint(call.point.x, call.point.y),
                                    call.addIds, call.removeIds)
          /\ call.atEmit.qryAreaIds = call.prevQry \o call.qryIndexs
          /\ call.atEmit.qryAreaIds = qryAreaIds
          /\ call.atEmit.curCenterAreaId = getAreaIdByCellPoint(call.point.x, call.point.y)
          /\ call.atEmit.curCenterAreaId = curCenterAreaId

C14_Witness ==
    /\ AreaTransition
    /\ call.prevAreaId # -1
    /\ Len(call.prevQry) > 0
    /\ Len(call.qryIndexs) > 0
    /\ Len(call.events) = 2

\* C15: a call with a cell that isVaildCellPoint rejects leaves the centre
\* cell, the centre area id, the fetch queue and the descriptors unchanged.
C15_InvalidCellIsNoOp ==
    (Called /\ ~isVaildCellPoint(call.point)) =>
        /\ curCenterPoint = call.prevPoint
        /\ curCenterAreaId = call.prevAreaId
        /\ qryAreaIds = call.prevQry
        /\ mapAreaDatas = call.prevDatas

\* the areas of the grid at most one step from the area of id in both axes
SpatialNeighbours(id) ==
    { getIdByAreaPoint(x, y) :
        <<x, y>> \in { <<x, y>> \in ((getAreaPointById(id).x - 1) .. (getAreaPointById(id).x + 1))
                                      \X ((getAreaPointById(id).y - 1) .. (getAreaPointById(id).y + 1)) :
                         /\ x >= 0 /\ x < areaSize.width
                         /\ y >= 0 /\ y < areaSize.height } }

\* C16: the first call, on the cell (0,0), is an area transition with empty
\* removeIds whose addIds are the areas of the grid around area 0, each once:
\* 4 ids when area 0 is a corner of the grid.
C16_FirstCallAtOrigin ==
    (Called /\ call.prevPoint = << >> /\ call.prevAreaId = -1 /\ call.point = v2(0, 0)) =>
        /\ Transition
        /\ call.removeIds = << >>
        /\ Range(call.addIds) = SpatialNeighbours(0)
        /\ Len(call.addIds) = Cardinality(SpatialNeighbours(0))
        /\ (areaSize.width >= 2 /\ areaSize.height >= 2) => Len(call.addIds) = 4

\* the areas of two valid ids differ by 1 in one axis and by 0 in the other
AdjacentAreas(a, b) ==
    /\ isVaildAreaId(a)
    /\ isVaildAreaId(b)
    /\ AbsDiff(getAreaPointById(a).x, getAreaPointById(b).x)
         + AbsDiff(getAreaPointById(a).y, getAreaPointById(b).y) = 1

\* C17: a transition between two valid areas adjacent along one axis is
\* incremental, and addIds and removeIds have at most 3 ids each.
C17_AdjacentMoveIsSmall ==
    (Transition /\ AdjacentAreas(call.prevAreaId, call.areaId)) =>
        /\ call.path = "pan"
        /\ Len(call.addIds) <= 3
        /\ Len(call.removeIds) <= 3

C17_Witness ==
    /\ Transition
    /\ AdjacentAreas(call.prevAreaId, call.areaId)
    /\ Len(call.addIds) = 3
    /\ Len(call.removeIds) = 3

----------------------------------------------------------------------------
(* Properties of the layer, stated on the record of the last update *)

\* C18: addItem, onUpdateCitys and onUpdateCity for an area that is not in
\* the layer (never added, or removed) create no item, take no node from the
\* pool and leave the items of the areas unchanged.
C18_NonResidentDiscarded ==
    ( /\ upd.op \in {"addItem", "onUpdateCitys", "onUpdateCity"}
      /\ upd.areaIndex \notin DOMAIN upd.prevItems ) =>
        /\ itemMap = upd.prevItems
        /\ itemPool = upd.prevPool
        /\ nodeCount = upd.prevCount

C18_Witness ==
    /\ upd.op = "onUpdateCitys"
    /\ upd.areaIndex \notin DOMAIN upd.prevItems
    /\ DOMAIN upd.prevItems # {}
    /\ Len(upd.prevPool) > 0
    /\ itemPool = upd.prevPool

----------------------------------------------------------------------------
(* Properties of initMapConfig *)

\* initMapConfig has run
Configured == areaCellSize # << >>

\* C19: after initMapConfig the area side length is even, at least 2 more
\* than ceil(viewport height / tile height), and at most the map height in
\* cells.
C19_AreaSide ==
    Configured =>
        /\ areaCellSize.width % 2 = 0
        /\ \E need \in 0..visibleSize.height :
              /\ need * tileSize.height >= visibleSize.height
              /\ (need - 1) * tileSize.height < visibleSize.height
              /\ areaCellSize.width >= need + 2
        /\ areaCellSize.width <= mapSize.height

\* C20: the area grid is ceil(map width / area side) by ceil(map height /
\* area side) and areaCount is the product; a 20 x 20 map with area side 8
\* has a grid of 3 x 3, the id of area (0,0) is 0, the id of area (2,2) is 8,
\* the largest valid id, and areaCount is 9.
C20_AreaGrid ==
    Configured =>
        /\ areaSize.width * areaCellSize.width >= mapSize.width
        /\ (areaSize.width - 1) * areaCellSize.width < mapSize.width
        /\ areaSize.height * areaCellSize.height >= mapSize.height
        /\ (areaSize.height - 1) * areaCellSize.height < mapSize.height
        /\ areaCount = areaSize.width * areaSize.height
        /\ (mapSize = size(20, 20) /\ areaCellSize.width = 8) =>
              /\ areaSize = size(3, 3)
              /\ getIdByAreaPoint(0, 0) = 0
              /\ getIdByAreaPoint(2, 2) = 8
              /\ isVaildAreaId(8)
              /\ \A id \in 9..20 : ~isVaildAreaId(id)
              /\ areaCount = 9

C20_Witness ==
    /\ Configured
    /\ mapSize = size(20, 20)
    /\ areaCellSize = size(8, 8)
    /\ areaSize = size(3, 3)

----------------------------------------------------------------------------
(* Properties of the query throttle, stated on the record of the last check *)

\* C10: checkAndUpdateQryTime returns true exactly when now minus the last
\* query time is at least 10000 ms, sets the time to now in that case only
\* and leaves it unchanged otherwise; a check 5 s after a permitted one is
\* refused and a check 11 s after a permitted one is permitted.
C10_Throttle ==
    qry.done =>
        /\ qry.ret = (qry.now - qry.before >= 10000)
        /\ qry.ret => qry.after = qry.now
        /\ ~qry.ret => qry.after = qry.before
        /\ mapAreaDatas[qry.id].qryStartTime = qry.after
        /\ (qry.before > 0 /\ qry.now - qry.before = 5000) => ~qry.ret
        /\ (qry.before > 0 /\ qry.now - qry.before = 11000) => qry.ret

C10_Witness ==
    /\ qry.done
    /\ qry.before > 0
    /\ qry.now - qry.before = 11000
    /\ qry.ret

----------------------------------------------------------------------------
(* Properties of the proxy under setCurCenterPoint, getMapAreaData,         *)
(* clearData, checkAndUpdateQryTime and the clock                           *)

\* C11: in any interleaving of setCurCenterPoint, getMapAreaData, clearData
\* and throttle checks, a permitted query of an area id is at least 10000 ms
\* after the previous permitted query of the same id.
C11_PermittedApart ==
    (qry.done /\ qry.ret /\ qry.lastEver # -1) => qry.now - qry.lastEver >= 10000

\* C11 as amended: a permitted query of an area id is at least 10000 ms
\* after the previous permitted query of the same id when no clearData call
\* lies between the two.
C11_PermittedApartSinceClear ==
    (qry.done /\ qry.ret /\ qry.lastCur # -1) => qry.now - qry.lastCur >= 10000

C11_Witness ==
    /\ qry.done
    /\ qry.ret
    /\ qry.lastCur # -1
    /\ hist.clears > 0
    /\ Transition

\* the descriptors of a state are those of the next state, but for the
\* query time, and the query time of a descriptor differs only when the step
\* is a permitted checkAndUpdateQryTime of its id; a new descriptor is the
\* one getMapAreaData builds
DescriptorsKept ==
    /\ \A id \in DOMAIN mapAreaDatas :
          /\ id \in DOMAIN mapAreaDatas'
          /\ [mapAreaDatas'[id] EXCEPT !.qryStartTime = 0]
                = [mapAreaDatas[id] EXCEPT !.qryStartTime = 0]
          /\ mapAreaDatas'[id].qryStartTime # mapAreaDatas[id].qryStartTime =>
                /\ qry'.done /\ qry'.ret /\ qry'.id = id
                /\ qry'.before = mapAreaDatas[id].qryStartTime
                /\ qry'.after = mapAreaDatas'[id].qryStartTime
                /\ UNCHANGED <<curCenterPoint, curCenterAreaId, qryAreaIds, call>>
    /\ \A id \in (DOMAIN mapAreaDatas') \ (DOMAIN mapAreaDatas) :
          mapAreaDatas'[id] = NewMapAreaData(id)

\* C12: a descriptor is created on the first reference and never removed:
\* after any operation of MapProxy every id passed to getMapAreaData maps to
\* the same descriptor, its query time changed by checkAndUpdateQryTime only.
C12_NeverRemoved == [][DescriptorsKept]_vars

\* C12 as amended: a descriptor is created on the first reference and is
\* removed by clearData only: after any operation but clearData every id
\* passed to getMapAreaData maps to the same descriptor, its query time
\* changed by checkAndUpdateQryTime only.
C12_RemovedByClearDataOnly == [][hist'.clears = hist.clears => DescriptorsKept]_vars

C12_Witness ==
    /\ Transition
    /\ hist.clears > 0
    /\ 0 \in DOMAIN call.prevDatas
    /\ call.prevDatas[0].qryStartTime > 0
    /\ 0 \in DOMAIN mapAreaDatas
    /\ mapAreaDatas[0] = call.prevDatas[0]

----------------------------------------------------------------------------
(* Properties of the functions of MapUtil, stated on the record of the last use *)

\* C21: the id of a cell of the grid converts back to the cell, the id of a
\* point of the area grid converts back to the point; the id lies in
\* [0, width * height) and no other valid coordinate has it.  On the 20 x 20
\* map the cell (0, 0) has the id 0, the cell (19, 19) the id 399, and 399
\* converts to (19, 19).
C21_IdRoundTrip ==
    /\ util.op = "getIdByCellPoint" /\ isVaildCellPoint(util.point) =>
          /\ util.back = util.point
          /\ util.id >= 0 /\ util.id < mapSize.width * mapSize.height
          /\ \A x \in 0..(mapSize.width - 1), y \in 0..(mapSize.height - 1) :
                 v2(x, y) # util.point => getIdByCellPoint(x, y) # util.id
    /\ util.op = "getIdByAreaPoint" /\ isVaildAreaPoint(util.point) =>
          /\ util.back = util.point
          /\ util.id >= 0 /\ util.id < areaCount
          /\ \A x \in 0..(areaSize.width - 1), y \in 0..(areaSize.height - 1) :
                 v2(x, y) # util.point => getIdByAreaPoint(x, y) # util.id
    /\ util.op = "getIdByCellPoint" /\ mapSize = size(20, 20) =>
          /\ util.point = v2(0, 0) => util.id = 0
          /\ util.point = v2(19, 19) => util.id = 399
          /\ util.id = 399 => util.back = v2(19, 19)

\* the last cell of the 20 x 20 map has been converted
C21_Witness ==
    /\ util.op = "getIdByCellPoint"
    /\ mapSize = size(20, 20)
    /\ util.point = v2(19, 19)
    /\ util.id = 399
    /\ util.back = v2(19, 19)

\* C22: the pixel point of a cell converts back to that cell, for the cells
\* of the grid and the cells around it
C22_CellPixelRoundTrip ==
    util.op = "mapCellToPixelPoint" => util.back = util.point

\* a cell of the grid and a cell outside it have been converted to pixel
\* points other than the origin
C22_Witness ==
    /\ util.op = "mapCellToPixelPoint"
    /\ isVaildCellPoint(util.point)
    /\ util.point.x # util.point.y
    /\ util.image # v2(0, 0)
    /\ util.back = util.point

\* C23: the world pixel point of the cell of a world pixel point p differs
\* from p by at most the tile width in x and at most the tile height in y
C23_WithinOneTile ==
    util.op = "worldPixelToMapCellPoint" =>
        /\ AbsDiff(util.back.x, util.point.x) <= tileSize.width
        /\ AbsDiff(util.back.y, util.point.y) <= tileSize.height

\* a pixel point that is not the centre of its cell, in the grid, has been
\* converted
C23_Witness ==
    /\ util.op = "worldPixelToMapCellPoint"
    /\ isVaildCellPoint(util.image)
    /\ util.back.x # util.point.x
    /\ util.back.y # util.point.y

\* C24: get9GridAreaIds(id) and get9GridCellIds(id) have 9 elements, the
\* 5th of them id; get9GridVaildAreaIds(id) is what is left of
\* get9GridAreaIds(id), in its order, when the ids outside [0, areaCount) are
\* taken out: at most 9 ids, all of them in [0, areaCount)
C24_NineGrid ==
    util.op = "get9Grid" =>
        /\ Len(util.ids) = 9 /\ util.ids[5] = util.id
        /\ Len(util.cellIds) = 9 /\ util.cellIds[5] = util.id
        /\ util.vaildIds = Minus(util.ids, {e \in Range(util.ids) : e < 0 \/ e >= areaCount})
        /\ Len(util.vaildIds) <= 9
        /\ \A i \in 1..Len(util.vaildIds) :
               util.vaildIds[i] >= 0 /\ util.vaildIds[i] < areaCount

\* the 9-grid of a valid area id has been taken, some but not all of it valid
C24_Witness ==
    /\ util.op = "get9Grid"
    /\ isVaildAreaId(util.id)
    /\ Len(util.vaildIds) > 1
    /\ Len(util.vaildIds) < 9

\* C27: each id of get9GridVaildAreaIds(a), a valid, is a or a spatial
\* neighbour of a: its area coordinates differ from those of a by at most 1
\* in x and in y
C27_OnlySpatialNeighbours ==
    util.op = "get9Grid" /\ isVaildAreaId(util.id) =>
        \A i \in 1..Len(util.vaildIds) :
            /\ AbsDiff(getAreaPointById(util.vaildIds[i]).x, getAreaPointById(util.id).x) <= 1
            /\ AbsDiff(getAreaPointById(util.vaildIds[i]).y, getAreaPointById(util.id).y) <= 1

\* the cell lies in the rectangle of the descriptor
InRectangle(point, data) ==
    /\ data.startCellX <= point.x /\ point.x < data.endCellX
    /\ data.startCellY <= point.y /\ point.y < data.endCellY

\* C29: a cell of the grid has a valid area id, the descriptor of that id
\* has x = id mod areaSize.width, y = floor(id / areaSize.width), the start
\* (x * side, y * side), the end side further and len = side, and the cell
\* lies in its rectangle, start included and end excluded, and in the
\* rectangle of no other valid area
C29_CellInItsArea ==
    util.op = "getAreaIdByCellPoint" /\ isVaildCellPoint(util.point) =>
        /\ util.id >= 0 /\ util.id < areaCount
        /\ util.data.id = util.id
        /\ util.data.x = util.id % areaSize.width
        /\ util.data.y = util.id \div areaSize.width
        /\ util.data.startCellX = util.data.x * areaCellSize.width
        /\ util.data.startCellY = util.data.y * areaCellSize.width
        /\ util.data.endCellX = util.data.startCellX + areaCellSize.width
        /\ util.data.endCellY = util.data.startCellY + areaCellSize.width
        /\ util.data.len = areaCellSize.width
        /\ InRectangle(util.point, util.data)
        /\ \A other \in 0..(areaCount - 1) :
               other # util.id =>
                   ~InRectangle(util.point, getMapAreaData(NoItems, other)[other])

\* the descriptor of the area of a cell inside an area that is not in the
\* first row or column has been fetched
C29_Witness ==
    /\ util.op = "getAreaIdByCellPoint"
    /\ isVaildCellPoint(util.point)
    /\ util.data.x > 0 /\ util.data.y > 0
    /\ util.point.x > util.data.startCellX
    /\ util.point.y > util.data.startCellY
    /\ util.id \in DOMAIN mapAreaDatas

----------------------------------------------------------------------------
(* Properties of the priority list and of the fetch queue *)

\* the centre pixel of the last call and the corners of the viewport around
\* it: left top, left bottom, right top, right bottom
ViewportPoints ==
    << call.pixelPoint,
       v2(call.pixelPoint.x - visibleSize.width \div 2, call.pixelPoint.y + visibleSize.height \div 2),
       v2(call.pixelPoint.x - visibleSize.width \div 2, call.pixelPoint.y - visibleSize.height \div 2),
       v2(call.pixelPoint.x + visibleSize.width \div 2, call.pixelPoint.y + visibleSize.height \div 2),
       v2(call.pixelPoint.x + visibleSize.width \div 2, call.pixelPoint.y - visibleSize.height \div 2) >>

\* the area ids of the viewport points, in their order
ViewportAreaIds ==
    [ i \in 1..5 |-> getAreaIdByCellPoint(mapPixelToCellPoint(ViewportPoints[i]).x,
                                          mapPixelToCellPoint(ViewportPoints[i]).y) ]

\* the positions of the ids that are valid and occur at no earlier position
FirstAppearances(ids) ==
    { i \in 1..Len(ids) : /\ ids[i] >= 0 /\ ids[i] < areaCount
                          /\ \A j \in 1..(i - 1) : ids[j] # ids[i] }

\* the ids at the positions of the set, in the order of ids
AtPositions(ids, positions) ==
    [ k \in 1..Cardinality(positions) |->
        ids[CHOOSE i \in positions : Cardinality({j \in positions : j < i}) = k - 1] ]

\* C25: on the full-reload path the priority list is the area ids of the
\* centre pixel and of the left-top, left-bottom, right-top and right-bottom
\* corners of the viewport, the invalid ids and the repetitions left out, in
\* the order of first appearance
C25_PriorityList ==
    call.path = "full" =>
        call.firstAreaIds = AtPositions(ViewportAreaIds, FirstAppearances(ViewportAreaIds))

\* a full reload whose viewport points lie in fewer than 5 and more than 2
\* valid areas, the area of a right corner listed after that of a left one
C25_Witness ==
    /\ call.path = "full"
    /\ Len(call.firstAreaIds) > 2
    /\ Len(call.firstAreaIds) < 5
    /\ \E i \in 2..3, j \in 4..5 :
          /\ isVaildAreaId(ViewportAreaIds[i]) /\ isVaildAreaId(ViewportAreaIds[j])
          /\ ViewportAreaIds[i] # ViewportAreaIds[j]
          /\ ViewportAreaIds[i] # ViewportAreaIds[1]
          /\ ViewportAreaIds[j] # ViewportAreaIds[1]

\* C26: every id in addIds, in removeIds and in the fetch queue is a valid
\* area id, whatever cells setCurCenterPoint was called with
C26_OnlyVaildIds ==
    /\ \A i \in 1..Len(call.addIds) : isVaildAreaId(call.addIds[i])
    /\ \A i \in 1..Len(call.removeIds) : isVaildAreaId(call.removeIds[i])
    /\ \A i \in 1..Len(qryAreaIds) : isVaildAreaId(qryAreaIds[i])

\* C28: on an area transition whose pixel point lies in the cell passed,
\* the first id the call appends to the fetch queue is the new centre area
\* id, on the full-reload path and on the panning path
C28_CentreFirst ==
    /\ Transition
    /\ mapPixelToCellPoint(call.pixelPoint) = call.point
    => /\ Len(qryAreaIds) > Len(call.prevQry)
       /\ qryAreaIds[Len(call.prevQry) + 1] = call.areaId

\* C30: whenever a centre cell is stored, that is after a setCurCenterPoint
\* call since the last clearData, the stored centre area id is the area id
\* of the stored centre cell
C30_CentreAreaOfCentreCell ==
    curCenterPoint # << >> =>
        curCenterAreaId = getAreaIdByCellPoint(curCenterPoint[1].x, curCenterPoint[1].y)

\* the centre has been set again after a clearData and moved to another area
C30_Witness ==
    /\ curCenterPoint # << >>
    /\ hist.clears > 0
    /\ call.path = "pan"
    /\ call.prevAreaId # curCenterAreaId
    /\ curCenterAreaId = getAreaIdByCellPoint(curCenterPoint[1].x, curCenterPoint[1].y)

----------------------------------------------------------------------------
(* Properties of the cells around a city *)

\* the ids of the cells at distance 2 from the cell (x, y): the cells
\* (x + dx, y + dy) with max(|dx|, |dy|) = 2
BorderIds(x, y) ==
    { getIdByCellPoint(x + dx, y + dy) :
        <<dx, dy>> \in { d \in (-2..2) \X (-2..2) : AbsDiff(d[1], 0) = 2 \/ AbsDiff(d[2], 0) = 2 } }

\* C39: for a centre cell at least 2 cells from every edge of the map,
\* getSideIdsForRoleCity returns the ids of the 16 cells at distance 2 from
\* it, each once, and no other id
C39_RoleCityBorder ==
    /\ util.op = "getSideIdsForRoleCity"
    /\ util.point.x >= 2 /\ util.point.x <= mapSize.width - 3
    /\ util.point.y >= 2 /\ util.point.y <= mapSize.height - 3
    /\ util.id = getIdByCellPoint(util.point.x, util.point.y)
    => /\ Len(util.cellIds) = 16
       /\ Range(util.cellIds) = BorderIds(util.point.x, util.point.y)
       /\ \A i, j \in 1..Len(util.cellIds) : i # j => util.cellIds[i] # util.cellIds[j]

----------------------------------------------------------------------------
(* Properties of the map view, stated on the record of the last handler *)

\* C31: each onTouchEnd emits one event, touchMap when no onTouchMove with
\* a non-zero delta was handled since the preceding onTouchBegan and moveMap
\* otherwise; an onTouchMove received while no touch is active moves neither
\* the camera nor the centre cell
C31_TouchEvents ==
    /\ touch.op = "onTouchEnd" =>
          /\ Len(touch.events) = 1
          /\ touch.events[1].name =
                 IF touch.movedSinceBegan THEN "moveMap" ELSE "touchMap"
    /\ touch.op = "onTouchMove" /\ ~touch.prevIsTouch =>
          /\ cameraPosition = touch.prevCamera
          /\ curCenterPoint = touch.prevCenter

\* C32: the camera stays inside the bounds, which are not negative:
\* -maxMapX <= x <= maxMapX and -maxMapY <= y <= maxMapY
C32_CameraInBounds ==
    maxMapX >= 0 /\ maxMapY >= 0 =>
        /\ -maxMapX <= cameraPosition.x /\ cameraPosition.x <= maxMapX
        /\ -maxMapY <= cameraPosition.y /\ cameraPosition.y <= maxMapY

\* a drag beyond the bounds set by setTiledMap has stopped the camera at them
C32_Witness ==
    /\ tiledMap # << >>
    /\ touch.op = "onTouchMove"
    /\ touch.prevIsTouch
    /\ touch.prevCamera.x - touch.arg.x > maxMapX
    /\ touch.prevCamera.y - touch.arg.y > maxMapY
    /\ cameraPosition = v2(maxMapX, maxMapY)

\* C33: after a drag step and after scrollToMapPoint the centre cell of
\* MapProxy is the cell under the camera, also when the camera was stopped
\* at the bounds
C33_CentreUnderCamera ==
    \/ touch.op = "onTouchMove" /\ touch.prevIsTouch /\ touch.arg # v2(0, 0)
    \/ touch.op = "scrollToMapPoint"
    => curCenterPoint = << mapPixelToCellPoint(cameraPosition) >>

----------------------------------------------------------------------------
(* Properties of the layer: the areas shown and the nodes *)

\* C34: udpateShowAreas removes before it adds: afterwards every id of
\* addIndexs is resident, and empty when it is in removeIndexs too; every id
\* of removeIndexs that is not in addIndexs is not resident; the nodes of
\* every area removed are in the pool; an area that was resident and is in
\* addIndexs only keeps its items
C34_RemoveThenAdd ==
    upd.op = "udpateShowAreas" =>
        /\ \A a \in Range(upd.addIndexs) :
               /\ a \in DOMAIN itemMap
               /\ a \in Range(upd.removeIndexs) => itemMap[a] = NoItems
               /\ a \in DOMAIN upd.prevItems /\ a \notin Range(upd.removeIndexs) =>
                      itemMap[a] = upd.prevItems[a]
        /\ \A a \in Range(upd.removeIndexs) :
               /\ a \notin Range(upd.addIndexs) => a \notin DOMAIN itemMap
               /\ a \in DOMAIN upd.prevItems =>
                      \A i \in 1..Len(upd.prevItems[a]) :
                          upd.prevItems[a][i].node \in Range(itemPool)

\* an area with items was in both lists, another with items only added
C34_Witness ==
    /\ upd.op = "udpateShowAreas"
    /\ \E a \in Range(upd.addIndexs) \cap Range(upd.removeIndexs) :
          a \in DOMAIN upd.prevItems /\ Len(upd.prevItems[a]) > 0
    /\ \E a \in Range(upd.addIndexs) \ Range(upd.removeIndexs) :
          a \in DOMAIN upd.prevItems /\ Len(upd.prevItems[a]) > 0
    /\ Len(itemPool) > Len(upd.prevPool)

\* the number of places of the node n in the items of the areas
DisplayedCount(n) ==
    Cardinality({ p \in UNION { {<<a, i>> : i \in 1..Len(itemMap[a])} : a \in DOMAIN itemMap } :
                    itemMap[p[1]][p[2]].node = n })

\* C35: every node the layer has created is in exactly one place, under one
\* item id of one resident area or in the pool, never both and never twice
\* in the pool; an item id occurs once in an area
C35_NodeInOnePlace ==
    /\ \A n \in 1..nodeCount : Count(itemPool, n) + DisplayedCount(n) = 1
    /\ \A a \in DOMAIN itemMap : \A i, j \in 1..Len(itemMap[a]) :
           i # j => itemMap[a][i].id # itemMap[a][j].id

\* nodes are displayed in two areas while another waits in the pool, after
\* a node was taken from the pool again
C35_Witness ==
    /\ nodeCount >= 3
    /\ Len(itemPool) > 0
    /\ Cardinality({a \in DOMAIN itemMap : Len(itemMap[a]) > 0}) = 2
    /\ upd.op \in {"addItem", "onUpdateCitys", "onUpdateCity"}
    /\ Len(upd.prevPool) > Len(itemPool)

----------------------------------------------------------------------------
(* Properties of entering the map, stated on the record of the last handler *)

\* C36: the enterMap event is emitted only with a configuration in the map
\* and a my-property response of code 0 taken since the last clearData; an
\* enterMap() call in any other state sends one query, the configuration
\* query without a configuration and the my-property query otherwise, and
\* emits nothing
C36_EnterMapEvent ==
    /\ cmd.events # << >> =>
           /\ cmd.events = <<LogicEvent_enterMap>>
           /\ cmd.entered
           /\ Len(mapResConfigs) > 0
           /\ cmd.okSinceClear
    /\ cmd.entered /\ ~(Len(mapResConfigs) > 0 /\ cmd.okSinceClear) =>
           /\ cmd.events = << >>
           /\ cmd.enterSent = IF Len(mapResConfigs) = 0 THEN <<nationMap_config>>
                              ELSE <<role_myProperty>>

\* the event was emitted after a clearData, and a call of enterMap() before
\* it found the flag reset
C36_Witness ==
    /\ cmd.events = <<LogicEvent_enterMap>>
    /\ cmd.op = "onRoleMyProperty"
    /\ steps > 0

\* C37: after enterMap() is called, when every query is answered with code
\* 0, the enterMap event is emitted at last
C37_EnterMapEmitted == cmd.waiting ~> ~cmd.waiting

\* the occurrences of the position (x, y) in the tags
TagsAt(tags, x, y) == Cardinality({ i \in 1..Len(tags) : tags[i].x = x /\ tags[i].y = y })

\* C38: no two position tags are at one position; addMapPosTag on an
\* occupied position leaves the tags as they are, removeMapPosTag(x, y) makes
\* isPosTag(x, y) false and keeps the tags of every other position
C38_OneTagAtAPosition ==
    /\ \A i, j \in 1..Len(mapPosTags) :
           i # j => mapPosTags[i].x # mapPosTags[j].x \/ mapPosTags[i].y # mapPosTags[j].y
    /\ tag.op = "addMapPosTag" /\ isPosTag(tag.prevTags, tag.x, tag.y) =>
           mapPosTags = tag.prevTags
    /\ tag.op = "removeMapPosTag" =>
           /\ ~isPosTag(mapPosTags, tag.x, tag.y)
           /\ mapPosTags = SelectSeq(tag.prevTags, LAMBDA t : <<t.x, t.y>> # <<tag.x, tag.y>>)

====
